---- MODULE Spec2Model ----
(***************************************************************************)
(* Model of the ExamAce capture/analysis controller (the UiMode variant of *)
(* CaptureForm in src/src/components/capture-form.tsx, lines 351-709), of  *)
(* the history store (src/src/lib/local-storage.ts) and of the history     *)
(* screen's clear operation (src/unnamed/part_003).                        *)
(*                                                                         *)
(* React semantics used by the model.  Every action is one browser task:   *)
(* the handler (or promise continuation) runs to completion, React batches *)
(* the state setters it called into one render, commits the DOM, and runs  *)
(* the camera effect's cleanup and body when one of its dependencies       *)
(* changed.  A state setter called by the effect body itself causes a      *)
(* second render inside the same action.  Closures (runAnalysis, the       *)
(* FileReader callback, the effect's handlers) keep the values of the      *)
(* render that created them; the model stores those values in the record   *)
(* of the pending operation.                                               *)
(***************************************************************************)
EXTENDS Integers, Sequences, FiniteSets, Bags, TLC

VARIABLES
    phase,                        \* "init" | "mounted" | "unmounted" (component lifecycle)
    uiMode,                       \* useState<UiMode>
    imageFile,                    \* useState<File | null>
    imagePreview,                 \* useState<string | null>
    analysisResult,               \* useState<AnalyzedProblem | null>: <<>> or <<p>>
    analysisError,                \* useState<string | null>
    shouldAutoPlaySpeech,         \* useState<boolean>
    hasCameraPermissionInternal,  \* useState<boolean | null>: "null" | "true" | "false"
    camera,                       \* the effect instance, the video element and the media streams
    readers,                      \* FileReaders whose onloadend has not fired yet
    inflight,                     \* analyzePsleProblem calls that have not settled yet
    blobs,                        \* pending fetch(dataUrl).then(blob) chains of snapshots
    nRun,                         \* number of runAnalysis invocations so far
    nCall,                        \* number of analyzePsleProblem calls made so far
    toast,                        \* title of the toast the latest step raised, if any
    store,                        \* localStorage content under HISTORY_KEY
    clock,                        \* wall clock (milliseconds)
    lsCall,                       \* last direct call of a local-storage function and its result
    card,                         \* ProblemDetailsCard (part_001) and window.speechSynthesis
    flagForm,                     \* CaptureForm, isCameraOpen variant (capture-form.tsx 17-329)
    setupForm                     \* CaptureForm, setupCamera variant (part_002)

ctrlVars == <<phase, uiMode, imageFile, imagePreview, analysisResult, analysisError,
              shouldAutoPlaySpeech, hasCameraPermissionInternal, camera, readers,
              inflight, blobs, nRun, nCall, toast>>
viewVars == <<card, flagForm, setupForm>>
vars == <<ctrlVars, store, clock, lsCall, viewVars>>

(***************************************************************************)
(* Bounds of the model                                                     *)
(***************************************************************************)
MaxRuns == 2          \* runAnalysis invocations (started or committed by a file selection)
MaxDeadRequests == 1  \* unresolved getUserMedia requests of torn-down effects
MaxStreams == 3       \* media streams that are referenced or live at one time
MaxClock == 1         \* clock ticks
MaxStoreLen == 3      \* history length in the storage specification
MaxOverlapRuns == 3   \* runAnalysis invocations in the specification of overlapping runs

Null == "null"
Undefined == "undefined"
NoStream == 0

(***************************************************************************)
(* local-storage.ts                                                        *)
(***************************************************************************)
\* What localStorage holds under the key: nothing, an empty string, text
\* that JSON.parse rejects, or JSON text of a value.
NoItem == [kind |-> "absent", type |-> "none", items |-> <<>>]
EmptyItem == [kind |-> "empty", type |-> "none", items |-> <<>>]
GarbageItem == [kind |-> "garbage", type |-> "none", items |-> <<>>]
NonArrayItem == [kind |-> "json", type |-> "object", items |-> <<>>]

\* JSON.stringify of one AnalyzedProblem: the text lists its members in
\* insertion order.
ToJson(p) ==
    << <<"id", p.id>>, <<"problemImageUri", p.problemImageUri>>, <<"advice", p.advice>>,
       <<"concepts", p.concepts>>, <<"timestamp", p.timestamp>> >>

\* JSON.parse of one object's text: the object with those members.
Member(ms, key) == ms[CHOOSE i \in DOMAIN ms : ms[i][1] = key][2]
FromJson(ms) ==
    [id |-> Member(ms, "id"), problemImageUri |-> Member(ms, "problemImageUri"),
     advice |-> Member(ms, "advice"), concepts |-> Member(ms, "concepts"),
     timestamp |-> Member(ms, "timestamp")]

\* JSON.stringify(updatedHistory): JSON text of an array.
JSONstringify(arr) ==
    [kind |-> "json", type |-> "array", items |-> [i \in 1..Len(arr) |-> ToJson(arr[i])]]

\* JSON.parse(rawHistory): the value, or a thrown SyntaxError.
JSONparse(raw) ==
    IF raw.kind = "json"
    THEN [threw |-> FALSE, isArray |-> raw.type = "array",
          value |-> [i \in 1..Len(raw.items) |-> FromJson(raw.items[i])]]
    ELSE [threw |-> TRUE, isArray |-> FALSE, value |-> <<>>]

\* getHistory without the try/catch around getItem and JSON.parse.
getHistoryResultNoCatch(st, win) ==
    IF ~win THEN [ret |-> <<>>, threw |-> FALSE]
    ELSE IF st.kind \in {"absent", "empty"} THEN [ret |-> <<>>, threw |-> FALSE]
    ELSE LET parsedHistory == JSONparse(st) IN
         IF parsedHistory.threw THEN [ret |-> <<>>, threw |-> TRUE]
         ELSE [ret |-> IF parsedHistory.isArray THEN parsedHistory.value ELSE <<>>,
               threw |-> FALSE]

\* How a getHistory call ends: the value it returns, and whether it threw
\* instead of returning.  The SyntaxError of JSON.parse is caught.
getHistoryResult(st, win) ==
    IF ~win THEN [ret |-> <<>>, threw |-> FALSE]
    ELSE IF st.kind \in {"absent", "empty"} THEN [ret |-> <<>>, threw |-> FALSE]
    ELSE LET parsedHistory == JSONparse(st) IN
         IF parsedHistory.threw THEN [ret |-> <<>>, threw |-> FALSE]
         ELSE [ret |-> IF parsedHistory.isArray THEN parsedHistory.value ELSE <<>>,
               threw |-> FALSE]

getHistory(st, win) == getHistoryResult(st, win).ret

\* addProblemToHistory with the new entry put last.
addProblemToHistoryAppend(st, problem, win, writeOk) ==
    IF ~win THEN [store |-> st, ret |-> <<>>, threw |-> FALSE]
    ELSE LET history == getHistory(st, win)
             updatedHistory == history \o <<problem>>
         IN IF writeOk
            THEN [store |-> JSONstringify(updatedHistory), ret |-> updatedHistory,
                  threw |-> FALSE]
            ELSE [store |-> st, ret |-> history, threw |-> FALSE]

\* addProblemToHistory without the try/catch around setItem.
addProblemToHistoryNoCatch(st, problem, win, writeOk) ==
    IF ~win THEN [store |-> st, ret |-> <<>>, threw |-> FALSE]
    ELSE LET history == getHistory(st, win)
             updatedHistory == <<problem>> \o history
         IN IF writeOk
            THEN [store |-> JSONstringify(updatedHistory), ret |-> updatedHistory,
                  threw |-> FALSE]
            ELSE [store |-> st, ret |-> <<>>, threw |-> TRUE]

\* addProblemToHistory writing the new entry alone.
addProblemToHistoryReplaces(st, problem, win, writeOk) ==
    IF ~win THEN [store |-> st, ret |-> <<>>, threw |-> FALSE]
    ELSE LET history == getHistory(st, win)
             updatedHistory == <<problem>>
         IN IF writeOk
            THEN [store |-> JSONstringify(updatedHistory), ret |-> updatedHistory,
                  threw |-> FALSE]
            ELSE [store |-> st, ret |-> history, threw |-> FALSE]

\* The store after the call, the value the call returns, and whether it
\* threw instead of returning.  writeOk: localStorage.setItem did not throw.
addProblemToHistory(st, problem, win, writeOk) ==
    IF ~win THEN [store |-> st, ret |-> <<>>, threw |-> FALSE]
    ELSE LET history == getHistory(st, win)
             updatedHistory == <<problem>> \o history
         IN IF writeOk
            THEN [store |-> JSONstringify(updatedHistory), ret |-> updatedHistory,
                  threw |-> FALSE]
            ELSE [store |-> st, ret |-> history, threw |-> FALSE]

\* clearHistoryStorage without the removeItem call.
clearHistoryStorageKeeps(st, win) == st

clearHistoryStorage(st, win) == IF ~win THEN st ELSE NoItem


(***************************************************************************)
(* capture-form.tsx, UiMode controller: render                             *)
(***************************************************************************)
UiModes == {"camera_pending", "camera_active", "camera_denied", "upload_mode",
            "analyzing", "results"}

\* Which of the three return statements of the component renders.
Screen(m, res) ==
    IF m = "results" /\ res # <<>> THEN "results"
    ELSE IF m = "analyzing" THEN "analyzing"
    ELSE "main"

\* The camera view section: it holds the <video> element and the two buttons.
CameraViewShown(m, prev, res, perm) ==
    /\ Screen(m, res) = "main"
    /\ \/ m = "camera_pending"
       \/ m = "camera_active"
       \/ (m = "camera_denied" /\ perm # "false")
    /\ prev = Null

SnapButtonShown(m, prev, res, perm) ==
    CameraViewShown(m, prev, res, perm) /\ m = "camera_active" /\ perm = "true"

\* The upload section without the "no pending image" condition.
UploadSectionShownWithPreview(m, prev, res, perm) ==
    /\ Screen(m, res) = "main"
    /\ \/ m = "upload_mode"
       \/ (m = "camera_denied" /\ perm = "false")

\* The upload section: it holds the file input.
UploadSectionShown(m, prev, res, perm) ==
    /\ Screen(m, res) = "main"
    /\ \/ m = "upload_mode"
       \/ (m = "camera_denied" /\ perm = "false" /\ prev = Null)
    /\ prev = Null

TryWebcamAgainShown(m, prev, res, perm) ==
    UploadSectionShown(m, prev, res, perm) /\ perm \in {"false", "null"}

\* The image preview section with its "Clear and Restart" button.
PreviewSectionShown(m, prev, res, perm) ==
    /\ Screen(m, res) = "main"
    /\ prev # Null
    /\ m # "results"
    /\ m # "analyzing"

\* The buttons and inputs the user can operate in a render.
Affordances(m, prev, res, perm) ==
    (IF SnapButtonShown(m, prev, res, perm) THEN {"snap"} ELSE {})
    \cup (IF CameraViewShown(m, prev, res, perm) THEN {"switchToUpload"} ELSE {})
    \cup (IF UploadSectionShown(m, prev, res, perm) THEN {"fileInput"} ELSE {})
    \cup (IF TryWebcamAgainShown(m, prev, res, perm) THEN {"tryWebcamAgain"} ELSE {})
    \cup (IF PreviewSectionShown(m, prev, res, perm) THEN {"clearAndRestart"} ELSE {})
    \cup (IF Screen(m, res) = "results" THEN {"startOver"} ELSE {})

\* The values the camera effect depends on, as one record.
Deps(m, prev, res, perm) ==
    [uiMode |-> m, imagePreview |-> prev, analysisResult |-> res, perm |-> perm]

CurDeps == Deps(uiMode, imagePreview, analysisResult, hasCameraPermissionInternal)

Shown(sect) ==
    sect \in Affordances(uiMode, imagePreview, analysisResult, hasCameraPermissionInternal)

(***************************************************************************)
(* capture-form.tsx, UiMode controller: the camera effect                  *)
(***************************************************************************)
\* Stopping all tracks of a stream.
StopTracks(K, s) == [K EXCEPT !.live = @ \ {s}]

\* The commit's DOM update: the <video> element exists exactly while the
\* camera view section is rendered; a new element has no srcObject and no
\* handlers, and videoRef.current is null while there is none.
Reconcile(K, D) ==
    LET vm == CameraViewShown(D.uiMode, D.imagePreview, D.analysisResult, D.perm) IN
    IF K.videoMounted = vm THEN K
    ELSE [K EXCEPT !.videoMounted = vm, !.srcObject = NoStream, !.handlers = "none",
                   !.metaPending = FALSE, !.loaded = FALSE]

\* The cleanup function without the stop of streamInstance's tracks.
EffectCleanupNoStop(K) ==
    [K EXCEPT !.gumDead = @ + (IF K.gumAlive THEN 1 ELSE 0),
              !.gumAlive = FALSE,
              !.handlers = IF @ = "alive" THEN "dead" ELSE @,
              !.streamInstance = NoStream]

\* The cleanup function returned by the effect.
EffectCleanup(K) ==
    LET K1 == [K EXCEPT !.gumDead = @ + (IF K.gumAlive THEN 1 ELSE 0),
                        !.gumAlive = FALSE,
                        !.handlers = IF @ = "alive" THEN "dead" ELSE @]
    IN IF K1.streamInstance # NoStream
       THEN [StopTracks(K1, K1.streamInstance) EXCEPT !.streamInstance = NoStream]
       ELSE IF K1.videoMounted /\ K1.srcObject # NoStream
       THEN [StopTracks(K1, K1.srcObject) EXCEPT !.srcObject = NoStream,
                                                !.metaPending = FALSE, !.loaded = FALSE]
       ELSE K1

\* manageCameraAsync whose shouldHaveCamera does not exclude upload_mode.
ManageCameraInUpload(K, D) ==
    LET shouldHaveCamera ==
            /\ D.uiMode # "results"
            /\ D.uiMode # "analyzing"
            /\ D.imagePreview = Null
            /\ D.analysisResult = <<>>
        explicitlyDeniedAndNotRetrying == D.perm = "false" /\ D.uiMode = "camera_denied"
    IN IF ~shouldHaveCamera \/ explicitlyDeniedAndNotRetrying
       THEN [setPending |-> FALSE,
             camera |-> IF K.videoMounted /\ K.srcObject # NoStream
                        THEN [StopTracks(K, K.srcObject) EXCEPT
                                 !.srcObject = NoStream, !.metaPending = FALSE,
                                 !.loaded = FALSE, !.streamInstance = NoStream]
                        ELSE [K EXCEPT !.streamInstance = NoStream]]
       ELSE IF D.uiMode = "camera_active" /\ K.videoMounted /\ K.srcObject # NoStream
               /\ D.perm = "true"
       THEN [setPending |-> FALSE, camera |-> [K EXCEPT !.streamInstance = K.srcObject]]
       ELSE [setPending |-> /\ D.uiMode # "camera_pending"
                            /\ ~(D.uiMode = "camera_denied" /\ D.perm = "false"),
             camera |-> [K EXCEPT !.gumAlive = TRUE]]

\* manageCameraAsync without the explicitlyDeniedAndNotRetrying condition.
ManageCameraRetriesDenied(K, D) ==
    LET shouldHaveCamera ==
            /\ D.uiMode # "upload_mode"
            /\ D.uiMode # "results"
            /\ D.uiMode # "analyzing"
            /\ D.imagePreview = Null
            /\ D.analysisResult = <<>>
    IN IF ~shouldHaveCamera
       THEN [setPending |-> FALSE,
             camera |-> IF K.videoMounted /\ K.srcObject # NoStream
                        THEN [StopTracks(K, K.srcObject) EXCEPT
                                 !.srcObject = NoStream, !.metaPending = FALSE,
                                 !.loaded = FALSE, !.streamInstance = NoStream]
                        ELSE [K EXCEPT !.streamInstance = NoStream]]
       ELSE IF D.uiMode = "camera_active" /\ K.videoMounted /\ K.srcObject # NoStream
               /\ D.perm = "true"
       THEN [setPending |-> FALSE, camera |-> [K EXCEPT !.streamInstance = K.srcObject]]
       ELSE [setPending |-> /\ D.uiMode # "camera_pending"
                            /\ ~(D.uiMode = "camera_denied" /\ D.perm = "false"),
             camera |-> [K EXCEPT !.gumAlive = TRUE]]

\* The synchronous part of manageCameraAsync, up to the await.  setPending
\* tells whether it called setUiMode('camera_pending').
ManageCamera(K, D) ==
    LET shouldHaveCamera ==
            /\ D.uiMode # "upload_mode"
            /\ D.uiMode # "results"
            /\ D.uiMode # "analyzing"
            /\ D.imagePreview = Null
            /\ D.analysisResult = <<>>
        explicitlyDeniedAndNotRetrying == D.perm = "false" /\ D.uiMode = "camera_denied"
    IN IF ~shouldHaveCamera \/ explicitlyDeniedAndNotRetrying
       THEN [setPending |-> FALSE,
             camera |-> IF K.videoMounted /\ K.srcObject # NoStream
                        THEN [StopTracks(K, K.srcObject) EXCEPT
                                 !.srcObject = NoStream, !.metaPending = FALSE,
                                 !.loaded = FALSE, !.streamInstance = NoStream]
                        ELSE [K EXCEPT !.streamInstance = NoStream]]
       ELSE IF D.uiMode = "camera_active" /\ K.videoMounted /\ K.srcObject # NoStream
               /\ D.perm = "true"
       THEN [setPending |-> FALSE, camera |-> [K EXCEPT !.streamInstance = K.srcObject]]
       ELSE [setPending |-> /\ D.uiMode # "camera_pending"
                            /\ ~(D.uiMode = "camera_denied" /\ D.perm = "false"),
             camera |-> [K EXCEPT !.gumAlive = TRUE]]

\* One render caused by changed dependencies: DOM update, cleanup of the
\* previous effect, body of the new one.
RunEffect(K, D) == ManageCamera(EffectCleanup(Reconcile(K, D)), D)

\* The commit running the effect after every render, changed dependencies
\* or not.
CommitAlways(D0, D1, K) ==
    LET e1 == RunEffect(K, D1) IN
    IF e1.setPending
    THEN LET D2 == [D1 EXCEPT !.uiMode = "camera_pending"] IN
         [uiMode |-> "camera_pending", camera |-> RunEffect(e1.camera, D2).camera]
    ELSE [uiMode |-> D1.uiMode, camera |-> e1.camera]

\* The render(s) that follow a handler: D0 are the dependency values of the
\* previous render, D1 the values after the handler's setters.
Commit(D0, D1, K) ==
    IF D0 = D1 THEN [uiMode |-> D1.uiMode, camera |-> K]
    ELSE LET e1 == RunEffect(K, D1) IN
         IF e1.setPending
         THEN LET D2 == [D1 EXCEPT !.uiMode = "camera_pending"] IN
              [uiMode |-> "camera_pending", camera |-> RunEffect(e1.camera, D2).camera]
         ELSE [uiMode |-> D1.uiMode, camera |-> e1.camera]

\* The controller state after a handler that left the React state at D1 and
\* the camera at K.
Render(D1, K) ==
    LET c == Commit(CurDeps, D1, K) IN
    /\ c.camera.gumDead <= MaxDeadRequests
    /\ uiMode' = c.uiMode
    /\ imagePreview' = D1.imagePreview
    /\ analysisResult' = D1.analysisResult
    /\ hasCameraPermissionInternal' = D1.perm
    /\ camera' = c.camera


(***************************************************************************)
(* capture-form.tsx, UiMode controller: inputs                             *)
(***************************************************************************)
\* canvas.toDataURL('image/png') of a snapshot, and reader.result of a file.
SnapDataUrl == "data:image/png;base64,snap"
FileDataUrls == {"data:image/jpeg;base64,file"}

\* What analyzePsleProblem resolves with (AnalyzePsleProblemOutputSchema).
Outputs == {[advice |-> "advice", concepts |-> "concepts"]}

\* What analyzePsleProblem rejects with: an Error, or a value that is none
\* (without a message member, or a plain object that has one).
Rejections == {[isError |-> TRUE, message |-> "network timeout"],
               [isError |-> FALSE, message |-> Undefined],
               [isError |-> FALSE, message |-> "service unavailable"]}

UnknownErrorMessage == "An unknown error occurred during analysis."

\* new Date().toISOString()
ToISOString(t) == <<"iso", t>>

\* An entry a previous session left in the store.
OldProblem == [id |-> ToISOString(-1), problemImageUri |-> "data:image/png;base64,old",
               advice |-> "advice", concepts |-> "concepts", timestamp |-> -1]

NoCall == [op |-> "none", win |-> TRUE, before |-> NoItem, arg |-> <<>>,
           wrote |-> FALSE, ret |-> <<>>, threw |-> FALSE]

NoCamera == [streamInstance |-> NoStream, gumAlive |-> FALSE, gumDead |-> 0,
             videoMounted |-> FALSE, srcObject |-> NoStream, handlers |-> "none",
             handlerPerm |-> Null, metaPending |-> FALSE, loaded |-> FALSE, live |-> {}]

\* The stream a granted getUserMedia call returns: one that is not in use.
UsedStreams(K) == K.live \cup {K.srcObject, K.streamInstance}
FreeStreams(K) == {s \in 1..MaxStreams : s \notin UsedStreams(K)}
NewStream(K) == CHOOSE s \in FreeStreams(K) : \A t \in FreeStreams(K) : s <= t

\* No utterance, and ProblemDetailsCard before it is rendered.
NoUtt == [status |-> "none", pid |-> 0, auto |-> FALSE, had |-> FALSE, n |-> 0]
NoCard == [mounted |-> FALSE, gone |-> FALSE, supported |-> TRUE, pid |-> 0,
           advice |-> "", autoPlay |-> FALSE, isSpeaking |-> FALSE, hasAuto |-> FALSE,
           utt |-> NoUtt, cancelled |-> {}, nUtt |-> 0, autoStarts |-> 0,
           finished |-> FALSE, toast |-> Null]

\* CaptureForm (isCameraOpen variant) before it is rendered.  currentStream
\* is the variable of the current run of the camera effect.
NoFlagForm == [mounted |-> FALSE, gone |-> FALSE, isCameraOpen |-> FALSE,
               hasCameraPermission |-> Null, imagePreview |-> Null,
               videoMounted |-> FALSE, srcObject |-> NoStream,
               currentStream |-> NoStream, gumAlive |-> FALSE, gumDead |-> 0,
               live |-> {}, toast |-> Null]
\* CaptureForm (setupCamera variant) before it is rendered.  gum counts the
\* getUserMedia calls that have not settled.
NoSetupForm == [mounted |-> FALSE, gone |-> FALSE, uiMode |-> "camera_pending",
                hasCameraPermissionInternal |-> Null, imagePreview |-> Null,
                videoMounted |-> FALSE, srcObject |-> NoStream,
                metaPending |-> FALSE, gum |-> 0, live |-> {}, toast |-> Null]

(***************************************************************************)
(* Initial state: the component is constructed, no effect has run yet      *)
(***************************************************************************)
InitController ==
    /\ phase = "init"
    /\ uiMode = "camera_pending"
    /\ imageFile = Null
    /\ imagePreview = Null
    /\ analysisResult = <<>>
    /\ analysisError = Null
    /\ shouldAutoPlaySpeech = FALSE
    /\ hasCameraPermissionInternal = Null
    /\ camera = NoCamera
    /\ readers = EmptyBag
    /\ inflight = EmptyBag
    /\ blobs = 0
    /\ nRun = 0
    /\ nCall = 0
    /\ toast = Null

\* The other components are not rendered.
InitViews ==
    /\ card = NoCard
    /\ flagForm = NoFlagForm
    /\ setupForm = NoSetupForm

Init ==
    /\ InitController
    /\ store = NoItem
    /\ clock = 0
    /\ lsCall = NoCall
    /\ InitViews

(***************************************************************************)
(* Actions of the UiMode controller                                        *)
(***************************************************************************)
\* First render and first run of the camera effect.
Mount ==
    /\ phase = "init"
    /\ phase' = "mounted"
    /\ camera' = ManageCamera(Reconcile(camera, CurDeps), CurDeps).camera
    /\ toast' = Null
    /\ UNCHANGED <<uiMode, imageFile, imagePreview, analysisResult, analysisError,
                   shouldAutoPlaySpeech, hasCameraPermissionInternal, readers,
                   inflight, blobs, nRun, nCall, store, clock, lsCall>>
    /\ UNCHANGED viewVars

\* The part of runAnalysis before the await: D and K after it.  closureMode
\* is the uiMode of the render whose runAnalysis is called.
RunAnalysisStart(closureMode, D, K) ==
    [deps |-> [D EXCEPT !.uiMode = "analyzing"],
     camera |-> IF closureMode = "camera_active" /\ K.videoMounted /\ K.srcObject # NoStream
                THEN [StopTracks(K, K.srcObject) EXCEPT !.srcObject = NoStream,
                                                       !.metaPending = FALSE,
                                                       !.loaded = FALSE]
                ELSE K]

\* The analyzePsleProblem call of one runAnalysis invocation, with the values
\* its closure holds.
AnalysisCall(closureMode, closurePrev, uri) ==
    [mode |-> closureMode, prev |-> closurePrev, uri |-> uri]

\* The branch handleSnapAnalyzeAndRead takes without the readiness test
\* of the video.
SnapOutcomeNoReadyCheck(videoRef, m, perm, ready) ==
    IF videoRef /\ m = "camera_active" /\ perm = "true"
    THEN "snap"
    ELSE "Capture Error"

\* The branch handleSnapAnalyzeAndRead takes: it snaps, or it raises a toast
\* with this title and returns.  videoRef: videoRef.current is set; ready:
\* the video has metadata and non-zero dimensions.
SnapOutcome(videoRef, m, perm, ready) ==
    IF videoRef /\ m = "camera_active" /\ perm = "true"
    THEN IF ~ready THEN "Camera Not Ready" ELSE "snap"
    ELSE "Capture Error"

\* Click on "Snap, Analyze & Read Aloud" with the video ready or not, while
\* fewer than limit runAnalysis invocations have been started or committed.
SnapAttemptWithin(limit, ready) ==
    /\ phase = "mounted"
    /\ Shown("snap")
    /\ LET outcome == SnapOutcome(camera.videoMounted, uiMode,
                                  hasCameraPermissionInternal, ready)
       IN IF outcome = "snap"
          THEN LET start == RunAnalysisStart(uiMode,
                               [CurDeps EXCEPT !.imagePreview = SnapDataUrl], camera)
               IN /\ nRun + BagCardinality(readers) < limit
                  /\ Render(start.deps, start.camera)
                  /\ analysisError' = Null
                  /\ shouldAutoPlaySpeech' = TRUE
                  /\ blobs' = blobs + 1
                  /\ nRun' = nRun + 1
                  /\ nCall' = nCall + 1
                  /\ inflight' = inflight (+)
                         SetToBag({AnalysisCall(uiMode, imagePreview, SnapDataUrl)})
                  /\ toast' = Null
                  /\ UNCHANGED <<imageFile, readers>>
          ELSE /\ toast' = outcome
               /\ UNCHANGED <<uiMode, imageFile, imagePreview, analysisResult,
                              analysisError, shouldAutoPlaySpeech,
                              hasCameraPermissionInternal, camera, readers,
                              inflight, blobs, nRun, nCall>>
    /\ UNCHANGED <<phase, store, clock, lsCall>>
    /\ UNCHANGED viewVars

SnapAttempt(ready) == SnapAttemptWithin(MaxRuns, ready)

\* Click on "Snap, Analyze & Read Aloud".  The video can only be ready
\* after its loadedmetadata event.
handleSnapAnalyzeAndRead ==
    \E ready \in BOOLEAN :
        /\ ready => camera.loaded
        /\ SnapAttempt(ready)

\* fetch(dataUrl).then(res => res.blob()).then(blob => setImageFile(...))
SnapshotBlobReady ==
    /\ blobs > 0
    /\ blobs' = blobs - 1
    /\ imageFile' = IF phase = "mounted" THEN "webcam-photo.png" ELSE imageFile
    /\ toast' = Null
    /\ UNCHANGED <<phase, uiMode, imagePreview, analysisResult, analysisError,
                   shouldAutoPlaySpeech, hasCameraPermissionInternal, camera, readers,
                   inflight, nRun, nCall, store, clock, lsCall>>
    /\ UNCHANGED viewVars

\* handleFileUpload without the test of the file: a reader is started for
\* an empty selection as well.
FileSelectedReadsAnyway(hasFile) ==
    /\ phase = "mounted"
    /\ Shown("fileInput")
    /\ nRun + BagCardinality(readers) < MaxRuns
    /\ imageFile' = "upload"
    /\ readers' = readers (+) SetToBag({[mode |-> uiMode, prev |-> imagePreview]})
    /\ toast' = Null
    /\ UNCHANGED <<phase, uiMode, imagePreview, analysisResult, analysisError,
                   shouldAutoPlaySpeech, hasCameraPermissionInternal, camera,
                   inflight, blobs, nRun, nCall, store, clock, lsCall>>
    /\ UNCHANGED viewVars

\* change event of the file input.  hasFile: event.target.files holds a file.
FileSelectedWithin(limit, hasFile) ==
    /\ phase = "mounted"
    /\ Shown("fileInput")
    /\ IF hasFile
       THEN /\ nRun + BagCardinality(readers) < limit
            /\ imageFile' = "upload"
            /\ readers' = readers (+)
                  SetToBag({[mode |-> uiMode, prev |-> imagePreview]})
       ELSE UNCHANGED <<imageFile, readers>>
    /\ toast' = Null
    /\ UNCHANGED <<phase, uiMode, imagePreview, analysisResult, analysisError,
                   shouldAutoPlaySpeech, hasCameraPermissionInternal, camera,
                   inflight, blobs, nRun, nCall, store, clock, lsCall>>
    /\ UNCHANGED viewVars

FileSelected(hasFile) == FileSelectedWithin(MaxRuns, hasFile)

\* change event of the file input, with a file or without one.
handleFileUpload == \E hasFile \in BOOLEAN : FileSelected(hasFile)

\* reader.onloadend: result is the data URL, or null when the read failed.
ReaderLoadEnd ==
    \E rd \in BagToSet(readers), dataUrl \in FileDataUrls \cup {Null} :
        /\ readers' = readers (-) SetToBag({rd})
        /\ nRun' = nRun + 1
        /\ nCall' = nCall + 1
        /\ inflight' = inflight (+) SetToBag({AnalysisCall(rd.mode, rd.prev, dataUrl)})
        /\ IF phase = "mounted"
           THEN LET start == RunAnalysisStart(rd.mode,
                                [CurDeps EXCEPT !.imagePreview = dataUrl], camera)
                IN /\ Render(start.deps, start.camera)
                   /\ analysisError' = Null
                   /\ shouldAutoPlaySpeech' = FALSE
           ELSE UNCHANGED <<uiMode, imagePreview, analysisResult, analysisError,
                            shouldAutoPlaySpeech, hasCameraPermissionInternal, camera>>
        /\ toast' = Null
        /\ UNCHANGED <<phase, imageFile, blobs, store, clock, lsCall>>
        /\ UNCHANGED viewVars

\* The AnalyzedProblem built from a result at the current time.
NewAnalyzedProblem(uri, out, now) ==
    [id |-> ToISOString(now), problemImageUri |-> uri, advice |-> out.advice,
     concepts |-> out.concepts, timestamp |-> now]

\* The flow validates its input against AnalyzePsleProblemInputSchema
\* (z.string()): a call without a string cannot resolve.
CanResolve(r) == r.uri # Null

\* The error text without the instanceof test: always the fixed text.
ErrorMessageGeneric(err) == UnknownErrorMessage

\* const errorMessage = err instanceof Error ? err.message : "An unknown ..."
ErrorMessage(err) == IF err.isError THEN err.message ELSE UnknownErrorMessage

\* The catch branch restoring the mode the analysis was started in.
ModeAfterFailureRestore(closureMode, closurePrev) == closureMode

\* The catch branch going to camera_active whatever the closure holds.
ModeAfterFailureActive(closureMode, closurePrev) == "camera_active"

\* The mode the catch branch sets, from the values runAnalysis closed over.
ModeAfterFailure(closureMode, closurePrev) ==
    IF closurePrev # Null THEN "upload_mode"
    ELSE IF closureMode = "camera_active" THEN "camera_denied" ELSE "upload_mode"

\* What addProblemToHistory would throw if setItem's exception escaped it.
StorageError == [isError |-> TRUE, message |-> "QuotaExceededError"]

\* runAnalysis after the await, try branch.  setAnalysisResult comes before
\* addProblemToHistory; an exception thrown by the latter would be caught by
\* the catch branch of runAnalysis.
AnalysisSucceeds(r, out, now, writeOk) ==
    /\ BagIn(r, inflight)
    /\ CanResolve(r)
    /\ inflight' = inflight (-) SetToBag({r})
    /\ clock' = now
    /\ LET p == NewAnalyzedProblem(r.uri, out, now)
           w == addProblemToHistory(store, p, TRUE, writeOk)
       IN /\ store' = w.store
          /\ IF phase = "mounted"
             THEN IF w.threw
                  THEN /\ Render([CurDeps EXCEPT
                                     !.analysisResult = <<p>>,
                                     !.uiMode = ModeAfterFailure(r.mode, r.prev)], camera)
                       /\ analysisError' = ErrorMessage(StorageError)
                       /\ shouldAutoPlaySpeech' = FALSE
                  ELSE /\ Render([CurDeps EXCEPT !.analysisResult = <<p>>,
                                                 !.uiMode = "results"], camera)
                       /\ UNCHANGED <<analysisError, shouldAutoPlaySpeech>>
             ELSE UNCHANGED <<uiMode, imagePreview, analysisResult, analysisError,
                              shouldAutoPlaySpeech, hasCameraPermissionInternal, camera>>
          /\ toast' = IF w.threw THEN "Analysis Failed" ELSE "Analysis Complete!"
    /\ UNCHANGED <<phase, imageFile, readers, blobs, nRun, nCall, lsCall>>
    /\ UNCHANGED viewVars

\* The catch branch calling analyzePsleProblem again.
AnalysisFailsRetry(r, err) ==
    /\ BagIn(r, inflight)
    /\ nCall' = nCall + 1
    /\ toast' = "Analysis Failed"
    /\ UNCHANGED <<phase, uiMode, imageFile, imagePreview, analysisResult, analysisError,
                   shouldAutoPlaySpeech, hasCameraPermissionInternal, camera, readers,
                   inflight, blobs, nRun, store, clock, lsCall>>
    /\ UNCHANGED viewVars

\* runAnalysis after the await, catch branch.
AnalysisFails(r, err) ==
    /\ BagIn(r, inflight)
    /\ inflight' = inflight (-) SetToBag({r})
    /\ IF phase = "mounted"
       THEN /\ analysisError' = ErrorMessage(err)
            /\ shouldAutoPlaySpeech' = FALSE
            /\ Render([CurDeps EXCEPT !.uiMode = ModeAfterFailure(r.mode, r.prev)], camera)
       ELSE UNCHANGED <<uiMode, imagePreview, analysisResult, analysisError,
                        shouldAutoPlaySpeech, hasCameraPermissionInternal, camera>>
    /\ toast' = "Analysis Failed"
    /\ UNCHANGED <<phase, imageFile, readers, blobs, nRun, nCall, store, clock, lsCall>>
    /\ UNCHANGED viewVars

\* Date.now(): the time of the previous reading, or a later one.
ClockReadings == {t \in {clock, clock + 1} : t <= MaxClock}

AnalysisResolves ==
    \E r \in BagToSet(inflight), out \in Outputs, now \in ClockReadings,
       writeOk \in BOOLEAN : AnalysisSucceeds(r, out, now, writeOk)

AnalysisRejects ==
    \E r \in BagToSet(inflight), err \in Rejections : AnalysisFails(r, err)

\* handleStartOver without setImagePreview(null).
handleStartOverKeepsImage ==
    /\ phase = "mounted"
    /\ Shown("startOver") \/ Shown("tryWebcamAgain") \/ Shown("clearAndRestart")
    /\ Render(Deps("camera_pending", imagePreview, <<>>, Null), camera)
    /\ imageFile' = Null
    /\ analysisError' = Null
    /\ shouldAutoPlaySpeech' = FALSE
    /\ toast' = Null
    /\ UNCHANGED <<phase, readers, inflight, blobs, nRun, nCall, store, clock,
                   lsCall>>
    /\ UNCHANGED viewVars

\* handleStartOver without setHasCameraPermissionInternal(null).
handleStartOverKeepsPermission ==
    /\ phase = "mounted"
    /\ Shown("startOver") \/ Shown("tryWebcamAgain") \/ Shown("clearAndRestart")
    /\ Render(Deps("camera_pending", Null, <<>>, hasCameraPermissionInternal), camera)
    /\ imageFile' = Null
    /\ analysisError' = Null
    /\ shouldAutoPlaySpeech' = FALSE
    /\ toast' = Null
    /\ UNCHANGED <<phase, readers, inflight, blobs, nRun, nCall, store, clock,
                   lsCall>>
    /\ UNCHANGED viewVars

\* "Start Over", "Try Webcam Again" and "Clear and Restart" all call it.
handleStartOver ==
    /\ phase = "mounted"
    /\ Shown("startOver") \/ Shown("tryWebcamAgain") \/ Shown("clearAndRestart")
    /\ Render(Deps("camera_pending", Null, <<>>, Null), camera)
    /\ imageFile' = Null
    /\ analysisError' = Null
    /\ shouldAutoPlaySpeech' = FALSE
    /\ toast' = Null
    /\ UNCHANGED <<phase, readers, inflight, blobs, nRun, nCall, store, clock,
                   lsCall>>
    /\ UNCHANGED viewVars

\* "Use File Upload Instead"
switchToUploadMode ==
    /\ phase = "mounted"
    /\ Shown("switchToUpload")
    /\ Render([CurDeps EXCEPT !.uiMode = "upload_mode"], camera)
    /\ toast' = Null
    /\ UNCHANGED <<phase, imageFile, analysisError, shouldAutoPlaySpeech, readers,
                   inflight, blobs, nRun, nCall, store, clock, lsCall>>
    /\ UNCHANGED viewVars


\* The grant continuation setting camera_active at once, without waiting
\* for loadedmetadata.
GetUserMediaGrantedActivates ==
    /\ phase = "mounted"
    /\ camera.gumAlive
    /\ FreeStreams(camera) # {}
    /\ LET stream == NewStream(camera)
           K0 == [camera EXCEPT !.gumAlive = FALSE, !.live = @ \cup {stream}]
           K1 == IF K0.videoMounted
                 THEN [K0 EXCEPT !.streamInstance = stream, !.srcObject = stream,
                                 !.handlers = "alive",
                                 !.handlerPerm = hasCameraPermissionInternal,
                                 !.metaPending = TRUE, !.loaded = FALSE]
                 ELSE [StopTracks(K0, stream) EXCEPT !.streamInstance = NoStream]
           D1 == [CurDeps EXCEPT !.uiMode = IF K0.videoMounted THEN "camera_active"
                                            ELSE "camera_denied",
                                 !.perm = "true"]
       IN Render(D1, K1)
    /\ toast' = Null
    /\ UNCHANGED <<phase, imageFile, analysisError, shouldAutoPlaySpeech, readers,
                   inflight, blobs, nRun, nCall, store, clock, lsCall>>
    /\ UNCHANGED viewVars

\* The pending getUserMedia call of the mounted effect resolves with a stream.
GetUserMediaGranted ==
    /\ phase = "mounted"
    /\ camera.gumAlive
    /\ FreeStreams(camera) # {}
    /\ LET stream == NewStream(camera)
           K0 == [camera EXCEPT !.gumAlive = FALSE, !.live = @ \cup {stream}]
           K1 == IF K0.videoMounted
                 THEN [K0 EXCEPT !.streamInstance = stream, !.srcObject = stream,
                                 !.handlers = "alive",
                                 !.handlerPerm = hasCameraPermissionInternal,
                                 !.metaPending = TRUE, !.loaded = FALSE]
                 ELSE [StopTracks(K0, stream) EXCEPT !.streamInstance = NoStream]
           D1 == [CurDeps EXCEPT !.uiMode = IF K0.videoMounted THEN @ ELSE "camera_denied",
                                 !.perm = "true"]
       IN Render(D1, K1)
    /\ toast' = Null
    /\ UNCHANGED <<phase, imageFile, analysisError, shouldAutoPlaySpeech, readers,
                   inflight, blobs, nRun, nCall, store, clock, lsCall>>
    /\ UNCHANGED viewVars

\* The continuation of getUserMedia without the isEffectMounted tests: a
\* late grant keeps its stream and records the permission, a late rejection
\* sets camera_denied.
GetUserMediaSettlesLateApplies ==
    /\ camera.gumDead > 0
    /\ \E granted \in BOOLEAN :
        IF granted
        THEN /\ FreeStreams(camera) # {}
             /\ camera' = [camera EXCEPT !.gumDead = @ - 1,
                                         !.live = @ \cup {NewStream(camera)}]
             /\ hasCameraPermissionInternal' = "true"
             /\ uiMode' = uiMode
        ELSE /\ camera' = [camera EXCEPT !.gumDead = @ - 1]
             /\ hasCameraPermissionInternal' = "false"
             /\ uiMode' = "camera_denied"
    /\ toast' = Null
    /\ UNCHANGED <<phase, imageFile, imagePreview, analysisResult, analysisError,
                   shouldAutoPlaySpeech, readers, inflight, blobs, nRun, nCall, store,
                   clock, lsCall>>
    /\ UNCHANGED viewVars

\* A getUserMedia call of a torn-down effect settles.  A stream it resolves
\* with is stopped at once (if (!isEffectMounted) ...); a rejection is only
\* logged.
GetUserMediaSettlesLate ==
    /\ camera.gumDead > 0
    /\ \E granted \in BOOLEAN :
        IF granted
        THEN /\ FreeStreams(camera) # {}
             /\ LET stream == NewStream(camera)
                    K0 == [camera EXCEPT !.gumDead = @ - 1, !.live = @ \cup {stream}]
                IN camera' = StopTracks(K0, stream)
        ELSE camera' = [camera EXCEPT !.gumDead = @ - 1]
    /\ toast' = Null
    /\ UNCHANGED <<phase, uiMode, imageFile, imagePreview, analysisResult, analysisError,
                   shouldAutoPlaySpeech, hasCameraPermissionInternal, readers,
                   inflight, blobs, nRun, nCall, store, clock, lsCall>>
    /\ UNCHANGED viewVars

\* The pending getUserMedia call of the mounted effect rejects.
GetUserMediaRejected ==
    /\ phase = "mounted"
    /\ camera.gumAlive
    /\ Render([CurDeps EXCEPT !.perm = "false", !.uiMode = "camera_denied"],
              [camera EXCEPT !.gumAlive = FALSE])
    /\ toast' = "Camera Access Denied"
    /\ UNCHANGED <<phase, imageFile, analysisError, shouldAutoPlaySpeech, readers,
                   inflight, blobs, nRun, nCall, store, clock, lsCall>>
    /\ UNCHANGED viewVars

\* The updater the onloadedmetadata handler passes to setUiMode.
ModeAfterMetadata(currentMode, closurePerm) ==
    IF currentMode = "camera_pending"
       \/ (currentMode = "camera_denied" /\ closurePerm # "false")
    THEN "camera_active"
    ELSE currentMode

\* loadedmetadata event of the video element.
VideoLoadedMetadata ==
    /\ phase = "mounted"
    /\ camera.videoMounted
    /\ camera.metaPending
    /\ LET K1 == [camera EXCEPT !.metaPending = FALSE, !.loaded = TRUE] IN
        IF camera.handlers = "alive"
        THEN Render([CurDeps EXCEPT !.uiMode = ModeAfterMetadata(@, camera.handlerPerm)], K1)
        ELSE /\ camera' = K1
             /\ UNCHANGED <<uiMode, imagePreview, analysisResult,
                            hasCameraPermissionInternal>>
    /\ toast' = Null
    /\ UNCHANGED <<phase, imageFile, analysisError, shouldAutoPlaySpeech, readers,
                   inflight, blobs, nRun, nCall, store, clock, lsCall>>
    /\ UNCHANGED viewVars

\* The onerror handler without the isEffectMounted test.
VideoErrorAnyHandler ==
    /\ phase = "mounted"
    /\ camera.videoMounted
    /\ camera.srcObject # NoStream
    /\ camera.handlers # "none"
    /\ Render([CurDeps EXCEPT !.uiMode = "camera_denied", !.perm = "false"], camera)
    /\ toast' = Null
    /\ UNCHANGED <<phase, imageFile, analysisError, shouldAutoPlaySpeech, readers,
                   inflight, blobs, nRun, nCall, store, clock, lsCall>>
    /\ UNCHANGED viewVars

\* error event of the video element while it plays a stream.  The handler
\* of a torn-down effect does nothing (if (isEffectMounted) ...).
VideoError ==
    /\ phase = "mounted"
    /\ camera.videoMounted
    /\ camera.srcObject # NoStream
    /\ camera.handlers # "none"
    /\ IF camera.handlers = "alive"
       THEN Render([CurDeps EXCEPT !.uiMode = "camera_denied", !.perm = "false"], camera)
       ELSE UNCHANGED <<uiMode, imagePreview, analysisResult,
                        hasCameraPermissionInternal, camera>>
    /\ toast' = Null
    /\ UNCHANGED <<phase, imageFile, analysisError, shouldAutoPlaySpeech, readers,
                   inflight, blobs, nRun, nCall, store, clock, lsCall>>
    /\ UNCHANGED viewVars

\* The component unmounts (the user leaves the capture screen): the DOM is
\* removed, then the effect's cleanup runs.  React discards the instance's
\* state, which reads as the initial values from here on; setters called
\* later by pending continuations have no effect.
Unmount ==
    /\ phase = "mounted"
    /\ phase' = "unmounted"
    /\ LET K == EffectCleanup([camera EXCEPT !.videoMounted = FALSE, !.srcObject = NoStream,
                                            !.handlers = "none", !.metaPending = FALSE,
                                            !.loaded = FALSE])
       IN /\ K.gumDead <= MaxDeadRequests
          /\ camera' = K
    /\ uiMode' = "camera_pending"
    /\ imageFile' = Null
    /\ imagePreview' = Null
    /\ analysisResult' = <<>>
    /\ analysisError' = Null
    /\ shouldAutoPlaySpeech' = FALSE
    /\ hasCameraPermissionInternal' = Null
    /\ toast' = Null
    /\ UNCHANGED <<readers, inflight, blobs, nRun, nCall, store, clock, lsCall>>
    /\ UNCHANGED viewVars

(***************************************************************************)
(* part_003, HistoryList: "Yes, clear history" on the history screen       *)
(***************************************************************************)
handleClearHistory ==
    /\ phase = "unmounted"
    /\ store' = clearHistoryStorage(store, TRUE)
    /\ toast' = "History Cleared"
    /\ UNCHANGED <<phase, uiMode, imageFile, imagePreview, analysisResult, analysisError,
                   shouldAutoPlaySpeech, hasCameraPermissionInternal, camera, readers,
                   inflight, blobs, nRun, nCall, clock, lsCall>>
    /\ UNCHANGED viewVars

Next ==
    \/ Mount
    \/ handleSnapAnalyzeAndRead
    \/ SnapshotBlobReady
    \/ handleFileUpload
    \/ ReaderLoadEnd
    \/ AnalysisResolves
    \/ AnalysisRejects
    \/ handleStartOver
    \/ switchToUploadMode
    \/ GetUserMediaGranted
    \/ GetUserMediaSettlesLate
    \/ GetUserMediaRejected
    \/ VideoLoadedMetadata
    \/ VideoError
    \/ Unmount
    \/ handleClearHistory

Spec == Init /\ [][Next]_vars

(***************************************************************************)
(* The controller with one more runAnalysis invocation: two overlapping    *)
(* uploads followed by a snapshot                                          *)
(***************************************************************************)
OverlapNext ==
    \/ Mount
    \/ \E ready \in BOOLEAN :
          /\ ready => camera.loaded
          /\ SnapAttemptWithin(MaxOverlapRuns, ready)
    \/ SnapshotBlobReady
    \/ \E hasFile \in BOOLEAN : FileSelectedWithin(MaxOverlapRuns, hasFile)
    \/ ReaderLoadEnd
    \/ AnalysisResolves
    \/ AnalysisRejects
    \/ handleStartOver
    \/ switchToUploadMode
    \/ GetUserMediaGranted
    \/ GetUserMediaSettlesLate
    \/ GetUserMediaRejected
    \/ VideoLoadedMetadata
    \/ VideoError
    \/ Unmount
    \/ handleClearHistory

OverlapSpec == Init /\ [][OverlapNext]_vars

(***************************************************************************)
(* Specification of the local-storage functions called directly            *)
(***************************************************************************)
\* The problems the calls are made with.
Problems == {NewAnalyzedProblem(u, o, t) :
                u \in {SnapDataUrl}, o \in Outputs, t \in 0..MaxClock}

RECURSIVE SeqsUpTo(_, _)
SeqsUpTo(S, n) ==
    IF n = 0 THEN {<<>>}
    ELSE LET shorter == SeqsUpTo(S, n - 1) IN
         shorter \cup {<<x>> \o q : x \in S, q \in {t \in shorter : Len(t) = n - 1}}

StoreInit ==
    /\ InitController
    /\ store \in {NoItem, EmptyItem, GarbageItem, NonArrayItem}
                 \cup {JSONstringify(h) : h \in SeqsUpTo({OldProblem}, 2)}
    /\ clock = 0
    /\ lsCall = NoCall
    /\ InitViews

CallGetHistory ==
    /\ \E win \in BOOLEAN :
        lsCall' = [op |-> "getHistory", win |-> win, before |-> store, arg |-> <<>>,
                   wrote |-> FALSE, ret |-> getHistoryResult(store, win).ret,
                   threw |-> getHistoryResult(store, win).threw]
    /\ UNCHANGED <<ctrlVars, store, clock>>
    /\ UNCHANGED viewVars

CallAddProblemToHistory ==
    /\ Len(getHistory(store, TRUE)) < MaxStoreLen
    /\ \E problem \in Problems, win \in BOOLEAN, writeOk \in BOOLEAN :
        LET r == addProblemToHistory(store, problem, win, writeOk) IN
        /\ store' = r.store
        /\ lsCall' = [op |-> "addProblemToHistory", win |-> win, before |-> store,
                      arg |-> <<problem>>, wrote |-> win /\ writeOk, ret |-> r.ret,
                      threw |-> r.threw]
    /\ UNCHANGED <<ctrlVars, clock>>
    /\ UNCHANGED viewVars

CallClearHistoryStorage ==
    /\ \E win \in BOOLEAN :
        /\ store' = clearHistoryStorage(store, win)
        /\ lsCall' = [op |-> "clearHistoryStorage", win |-> win, before |-> store,
                      arg |-> <<>>, wrote |-> FALSE, ret |-> <<>>, threw |-> FALSE]
    /\ UNCHANGED <<ctrlVars, clock>>
    /\ UNCHANGED viewVars

StoreNext ==
    \/ CallGetHistory
    \/ CallAddProblemToHistory
    \/ CallClearHistoryStorage

StoreSpec == StoreInit /\ [][StoreNext]_vars


(***************************************************************************)
(* part_001, ProblemDetailsCard (the version with autoPlaySpeech) and the  *)
(* browser's speech synthesis.  An utterance passed to speak() is queued   *)
(* ("pending": speechSynthesis.speaking is false) or taken up at once      *)
(* ("current": speaking is true), as the browser decides; its start event  *)
(* is delivered later ("started").  cancel() empties the queue; every      *)
(* utterance it removes gets an end or an error event later.  The handlers *)
(* of an utterance keep the values of the render whose speakAdvice made it.*)
(***************************************************************************)
MaxUtterances == 4    \* utterances one card creates

\* The problems a parent renders the card with: advice that can be read,
\* advice of white space only, and no advice.
CardProblems == {[id |-> 1, advice |-> "advice one"], [id |-> 2, advice |-> "advice two"],
                 [id |-> 3, advice |-> " "], [id |-> 4, advice |-> ""]}

\* String.prototype.trim
Trim(a) == IF a = " " THEN "" ELSE a

\* The props and state values one render of the card works with.
RenderValues(S) ==
    [pid |-> S.pid, advice |-> S.advice, autoPlay |-> S.autoPlay,
     isSpeaking |-> S.isSpeaking, hasAuto |-> S.hasAuto]

NoRender == [pid |-> 0, advice |-> "", autoPlay |-> FALSE, isSpeaking |-> FALSE,
             hasAuto |-> FALSE]

\* window.speechSynthesis.speaking
SpeakingFlag(S) == S.utt.status \in {"current", "started"}

\* window.speechSynthesis.cancel()
SynthCancel(S) ==
    IF S.utt.status = "none" THEN S
    ELSE [S EXCEPT !.cancelled = @ \cup {S.utt}, !.utt = NoUtt]

\* speakAdvice of the render with values cur.  sync: the browser takes the
\* utterance up at once; byEffect: called by the auto-play effect.
speakAdvice(S, cur, sync, byEffect) ==
    IF ~S.supported THEN [S EXCEPT !.toast = "Speech Error"]
    ELSE IF cur.advice # "" /\ Trim(cur.advice) # ""
    THEN LET S1 == SynthCancel(S) IN
         [S1 EXCEPT !.utt = [status |-> IF sync THEN "current" ELSE "pending",
                             pid |-> cur.pid, auto |-> cur.autoPlay,
                             had |-> cur.hasAuto, n |-> S.nUtt + 1],
                    !.nUtt = @ + 1,
                    !.autoStarts = @ + (IF byEffect THEN 1 ELSE 0)]
    ELSE IF cur.autoPlay
    THEN [S EXCEPT !.hasAuto = TRUE, !.toast = "No Advice"]
    ELSE S

\* The effect on [problem.id].  autoStarts and finished describe the
\* problem displayed, so they start again with it.
ResetEffect(S) ==
    [(IF S.supported /\ SpeakingFlag(S) THEN SynthCancel(S) ELSE S)
        EXCEPT !.hasAuto = FALSE, !.isSpeaking = FALSE, !.autoStarts = 0,
               !.finished = FALSE]

\* The auto-play effect of the render with values cur.
AutoPlayEffect(S, cur, sync) ==
    IF cur.autoPlay /\ cur.advice # "" /\ ~cur.isSpeaking /\ ~cur.hasAuto
    THEN speakAdvice(S, cur, sync, TRUE)
    ELSE S

\* One render of the card and the renders its effects cause: prev are the
\* values of the previous render (NoRender at the mount).  The effects run
\* in the order of their declaration, each only when one of its
\* dependencies changed.
RECURSIVE CardRender(_, _, _)
CardRender(prev, S, sync) ==
    LET cur == RenderValues(S)
        first == prev.pid = 0
        S1 == IF first \/ prev.pid # cur.pid THEN ResetEffect(S) ELSE S
        autoDeps(v) == <<v.autoPlay, v.advice, v.isSpeaking, v.hasAuto>>
        S2 == IF first \/ autoDeps(prev) # autoDeps(cur)
              THEN AutoPlayEffect(S1, cur, sync)
              ELSE S1
    IN IF RenderValues(S2) = cur THEN S2 ELSE CardRender(cur, S2, sync)

\* newUtterance.onend of utterance u.
OnEnd(S, u) ==
    IF ~S.mounted THEN S
    ELSE [S EXCEPT !.isSpeaking = FALSE,
                   !.hasAuto = IF u.auto /\ ~u.had THEN TRUE ELSE @]

\* newUtterance.onerror of utterance u.
OnError(S, u) ==
    IF ~S.mounted THEN S
    ELSE [S EXCEPT !.isSpeaking = FALSE,
                   !.hasAuto = IF u.auto /\ ~u.had THEN TRUE ELSE @,
                   !.toast = "Speech Error"]

\* The card after a handler left it at S: the render, within the bound.
CardStep(S, sync) ==
    LET S1 == IF S.mounted THEN CardRender(RenderValues(card), S, sync) ELSE S IN
    /\ S1.nUtt <= MaxUtterances
    /\ card' = S1
    /\ UNCHANGED <<ctrlVars, store, clock, lsCall, flagForm, setupForm>>

\* A parent renders the card for the first time.
CardMount ==
    /\ ~card.mounted
    /\ ~card.gone
    /\ \E p \in CardProblems, autoPlaySpeech \in BOOLEAN, supported \in BOOLEAN,
          sync \in BOOLEAN :
         /\ card' = CardRender(NoRender,
                       [NoCard EXCEPT !.mounted = TRUE, !.supported = supported,
                                      !.pid = p.id, !.advice = p.advice,
                                      !.autoPlay = autoPlaySpeech], sync)
    /\ UNCHANGED <<ctrlVars, store, clock, lsCall, flagForm, setupForm>>

\* The parent renders the card with another problem.
CardProblemChanges ==
    /\ card.mounted
    /\ \E p \in CardProblems, sync \in BOOLEAN :
         /\ p.id # card.pid
         /\ CardStep([card EXCEPT !.pid = p.id, !.advice = p.advice, !.toast = Null], sync)

\* The start event of the utterance: onstart.
UtteranceStarts ==
    /\ card.utt.status \in {"pending", "current"}
    /\ CardStep([card EXCEPT !.utt.status = "started",
                             !.isSpeaking = IF card.mounted THEN TRUE ELSE @,
                             !.toast = Null], FALSE)

\* The utterance has been spoken to its end: onend.
UtteranceEnds ==
    /\ card.utt.status = "started"
    /\ CardStep([OnEnd([card EXCEPT !.toast = Null], card.utt)
                    EXCEPT !.utt = NoUtt,
                           !.finished = @ \/ card.utt.pid = card.pid], FALSE)

\* The synthesis of the utterance fails, before or after its start: onerror.
UtteranceErrors ==
    /\ card.utt.status # "none"
    /\ CardStep([OnError([card EXCEPT !.toast = Null], card.utt)
                    EXCEPT !.utt = NoUtt,
                           !.finished = @ \/ card.utt.pid = card.pid], FALSE)

\* The event of an utterance that cancel() removed: end or error, as the
\* browser decides.
CancelledUtteranceEvent ==
    \E u \in card.cancelled, asError \in BOOLEAN :
        LET S0 == [card EXCEPT !.cancelled = @ \ {u}, !.toast = Null] IN
        CardStep(IF asError THEN OnError(S0, u) ELSE OnEnd(S0, u), FALSE)

\* Click on the read-aloud / stop button, which is rendered for advice
\* that is not blank.
handleToggleSpeech ==
    /\ card.mounted
    /\ card.advice # "" /\ Trim(card.advice) # ""
    /\ \E sync \in BOOLEAN :
         LET S0 == [card EXCEPT !.toast = Null] IN
         CardStep(IF ~card.supported THEN [S0 EXCEPT !.toast = "Speech Error"]
                  ELSE IF card.isSpeaking
                  THEN [SynthCancel(S0) EXCEPT
                           !.finished = @ \/ (card.utt.status # "none"
                                              /\ card.utt.pid = card.pid)]
                  ELSE speakAdvice(S0, RenderValues(card), sync, FALSE), sync)

\* The parent stops rendering the card: the cleanup of the last effect.
CardUnmount ==
    /\ card.mounted
    /\ LET S0 == IF card.supported THEN SynthCancel(card) ELSE card IN
       card' = [S0 EXCEPT !.mounted = FALSE, !.gone = TRUE, !.isSpeaking = FALSE,
                          !.hasAuto = FALSE, !.toast = Null]
    /\ UNCHANGED <<ctrlVars, store, clock, lsCall, flagForm, setupForm>>

CardNext ==
    \/ CardMount
    \/ CardProblemChanges
    \/ UtteranceStarts
    \/ UtteranceEnds
    \/ UtteranceErrors
    \/ CancelledUtteranceEvent
    \/ handleToggleSpeech
    \/ CardUnmount

CardSpec == Init /\ [][CardNext]_vars

(***************************************************************************)
(* capture-form.tsx, CaptureForm with isCameraOpen (lines 17-329): the     *)
(* camera.  The continuation of getUserMedia has no test of the effect     *)
(* that started it; the requests of effects that were cleaned up are       *)
(* counted in gumDead.                                                     *)
(***************************************************************************)
MaxFlagRequests == 2  \* unresolved getUserMedia requests of cleaned-up effects

FlagFreeStreams(F) ==
    {s \in 1..MaxStreams : s \notin F.live \cup {F.srcObject, F.currentStream}}
FlagNewStream(F) ==
    CHOOSE s \in FlagFreeStreams(F) : \A t \in FlagFreeStreams(F) : s <= t

\* if (videoRef.current && videoRef.current.srcObject) { stop; srcObject = null }
FlagStopVideo(F) ==
    IF F.videoMounted /\ F.srcObject # NoStream
    THEN [F EXCEPT !.live = @ \ {F.srcObject}, !.srcObject = NoStream]
    ELSE F

\* The cleanup function of the camera effect.
FlagCleanup(F) ==
    LET F1 == IF F.currentStream # NoStream
              THEN [F EXCEPT !.live = @ \ {F.currentStream}]
              ELSE F
    IN [FlagStopVideo(F1) EXCEPT !.currentStream = NoStream,
                                 !.gumDead = @ + (IF F.gumAlive THEN 1 ELSE 0),
                                 !.gumAlive = FALSE]

\* The body of the camera effect, up to the await.
FlagEffectBody(F) ==
    IF F.isCameraOpen
    THEN [F EXCEPT !.hasCameraPermission = Null, !.gumAlive = TRUE]
    ELSE [FlagStopVideo(F) EXCEPT !.hasCameraPermission = Null]

\* The render after a handler that took the form from F0 to F1: the <video>
\* element exists while isCameraOpen (a removed element leaves
\* videoRef.current null, a new one has no srcObject), and the effect runs
\* again when isCameraOpen changed.
FlagCommit(F0, F1) ==
    IF F1.isCameraOpen = F0.isCameraOpen THEN F1
    ELSE FlagEffectBody(FlagCleanup([F1 EXCEPT !.videoMounted = F1.isCameraOpen,
                                               !.srcObject = NoStream]))

FlagStep(F1) ==
    LET F2 == FlagCommit(flagForm, F1) IN
    /\ F2.gumDead <= MaxFlagRequests
    /\ flagForm' = F2
    /\ UNCHANGED <<ctrlVars, store, clock, lsCall, card, setupForm>>

\* First render: the effect runs with isCameraOpen = false.
FlagMount ==
    /\ ~flagForm.mounted
    /\ ~flagForm.gone
    /\ flagForm' = FlagEffectBody([NoFlagForm EXCEPT !.mounted = TRUE])
    /\ UNCHANGED <<ctrlVars, store, clock, lsCall, card, setupForm>>

\* "Take Photo with Webcam" (camera closed) or "Cancel" (camera open).
handleToggleCamera ==
    /\ flagForm.mounted
    /\ FlagStep(IF flagForm.isCameraOpen
                THEN [flagForm EXCEPT !.isCameraOpen = FALSE, !.toast = Null]
                ELSE [flagForm EXCEPT !.isCameraOpen = TRUE, !.imagePreview = Null,
                                      !.toast = Null])

\* "Snap Photo", enabled while hasCameraPermission is true.  ready: the
\* video has metadata and dimensions, which needs a stream.
handleTakePhoto ==
    /\ flagForm.mounted
    /\ flagForm.isCameraOpen
    /\ flagForm.hasCameraPermission = "true"
    /\ \E ready \in BOOLEAN :
         /\ ready => flagForm.srcObject # NoStream
         /\ FlagStep(IF ~flagForm.videoMounted
                     THEN [flagForm EXCEPT !.toast = "Capture Error"]
                     ELSE IF ~ready
                     THEN [flagForm EXCEPT !.toast = "Camera Not Ready"]
                     ELSE [flagForm EXCEPT !.imagePreview = SnapDataUrl,
                                           !.isCameraOpen = FALSE, !.toast = Null])

\* A getUserMedia call resolves with a stream.  late: the call was made by
\* an effect that has been cleaned up since, so the currentStream it
\* assigns is no longer read by any cleanup.
FlagGetUserMediaGranted ==
    \E late \in BOOLEAN :
        /\ IF late THEN flagForm.gumDead > 0 ELSE flagForm.gumAlive
        /\ FlagFreeStreams(flagForm) # {}
        /\ LET stream == FlagNewStream(flagForm)
               F0 == [flagForm EXCEPT !.live = @ \cup {stream}, !.toast = Null]
               F1 == IF late THEN [F0 EXCEPT !.gumDead = @ - 1]
                     ELSE [F0 EXCEPT !.gumAlive = FALSE, !.currentStream = stream]
               F2 == IF F1.mounted
                     THEN [F1 EXCEPT !.hasCameraPermission = "true"]
                     ELSE F1
           IN FlagStep(IF F2.videoMounted THEN [F2 EXCEPT !.srcObject = stream] ELSE F2)

\* A getUserMedia call rejects.
FlagGetUserMediaRejected ==
    \E late \in BOOLEAN :
        /\ IF late THEN flagForm.gumDead > 0 ELSE flagForm.gumAlive
        /\ LET F1 == IF late THEN [flagForm EXCEPT !.gumDead = @ - 1]
                     ELSE [flagForm EXCEPT !.gumAlive = FALSE]
           IN FlagStep([F1 EXCEPT !.hasCameraPermission =
                                      IF F1.mounted THEN "false" ELSE @,
                                  !.toast = "Camera Access Denied"])

\* The form unmounts: the <video> element is removed, then the cleanup runs.
FlagUnmount ==
    /\ flagForm.mounted
    /\ LET F1 == FlagCleanup([flagForm EXCEPT !.videoMounted = FALSE,
                                              !.srcObject = NoStream])
       IN /\ F1.gumDead <= MaxFlagRequests
          /\ flagForm' = [F1 EXCEPT !.mounted = FALSE, !.gone = TRUE,
                                    !.isCameraOpen = FALSE,
                                    !.hasCameraPermission = Null,
                                    !.imagePreview = Null, !.toast = Null]
    /\ UNCHANGED <<ctrlVars, store, clock, lsCall, card, setupForm>>

FlagNext ==
    \/ FlagMount
    \/ handleToggleCamera
    \/ handleTakePhoto
    \/ FlagGetUserMediaGranted
    \/ FlagGetUserMediaRejected
    \/ FlagUnmount

FlagSpec == Init /\ [][FlagNext]_vars

(***************************************************************************)
(* part_002, CaptureForm with setupCamera: the camera.  setupCamera is a   *)
(* useCallback on [toast, hasCameraPermissionInternal, uiMode] and a       *)
(* dependency of the effect, so the effect runs again when uiMode,         *)
(* imagePreview or hasCameraPermissionInternal changes.  No continuation   *)
(* tests whether its effect is still the current one.                      *)
(***************************************************************************)
MaxSetupRequests == 5 \* getUserMedia calls that have not settled

SetupFreeStreams(F) == {s \in 1..MaxStreams : s \notin F.live \cup {F.srcObject}}
SetupNewStream(F) ==
    CHOOSE s \in SetupFreeStreams(F) : \A t \in SetupFreeStreams(F) : s <= t

\* The camera view section, which holds the <video> element and the
\* "Use File Upload Instead" button.
SetupCameraViewShown(F) ==
    /\ \/ F.uiMode = "camera_pending"
       \/ F.uiMode = "camera_active"
       \/ (F.uiMode = "camera_denied" /\ F.hasCameraPermissionInternal = Null)
    /\ F.imagePreview = Null

\* The upload section and its "Try Webcam Again" button.
SetupTryWebcamAgainShown(F) ==
    /\ \/ F.uiMode = "upload_mode"
       \/ (F.uiMode = "camera_denied" /\ F.hasCameraPermissionInternal = "false")
    /\ F.imagePreview = Null
    /\ F.hasCameraPermissionInternal # "true"

\* if (videoRef.current && videoRef.current.srcObject) { stop; srcObject = null }
SetupStopVideo(F) ==
    IF F.videoMounted /\ F.srcObject # NoStream
    THEN [F EXCEPT !.live = @ \ {F.srcObject}, !.srcObject = NoStream,
                   !.metaPending = FALSE]
    ELSE F

\* setupCamera up to the await, with the values of its render.
setupCamera(F) ==
    IF F.uiMode \in {"upload_mode", "results", "analyzing"} THEN F
    ELSE IF F.hasCameraPermissionInternal = "true" /\ F.videoMounted
            /\ F.srcObject # NoStream
    THEN [F EXCEPT !.uiMode = "camera_active"]
    ELSE [F EXCEPT !.uiMode = "camera_pending", !.gum = @ + 1]

\* The body of the effect.
SetupEffectBody(F) ==
    IF F.uiMode \notin {"upload_mode", "results", "analyzing"} /\ F.imagePreview = Null
    THEN setupCamera(F)
    ELSE F

SetupDeps(F) == <<F.uiMode, F.imagePreview, F.hasCameraPermissionInternal>>

\* The renders after a handler: prev are the dependency values of the
\* previous render.  The <video> element exists while the camera view is
\* shown; then the cleanup of the previous effect and the body of the new
\* one run, and a setUiMode of the body causes the next render.
RECURSIVE SetupRender(_, _)
SetupRender(prev, F) ==
    IF SetupDeps(F) = prev THEN F
    ELSE LET F1 == IF F.videoMounted = SetupCameraViewShown(F) THEN F
                   ELSE [F EXCEPT !.videoMounted = SetupCameraViewShown(F),
                                  !.srcObject = NoStream, !.metaPending = FALSE]
         IN SetupRender(SetupDeps(F), SetupEffectBody(SetupStopVideo(F1)))

SetupStep(F) ==
    LET F1 == IF F.mounted THEN SetupRender(SetupDeps(setupForm), F) ELSE F IN
    /\ F1.gum <= MaxSetupRequests
    /\ setupForm' = F1
    /\ UNCHANGED <<ctrlVars, store, clock, lsCall, card, flagForm>>

\* First render and first run of the effect.
SetupMount ==
    /\ ~setupForm.mounted
    /\ ~setupForm.gone
    /\ LET F0 == [NoSetupForm EXCEPT !.mounted = TRUE, !.videoMounted = TRUE]
           F1 == SetupEffectBody(F0)
       IN setupForm' = SetupRender(SetupDeps(F0), F1)
    /\ UNCHANGED <<ctrlVars, store, clock, lsCall, card, flagForm>>

\* A getUserMedia call resolves with a stream.
SetupGetUserMediaGranted ==
    /\ setupForm.gum > 0
    /\ SetupFreeStreams(setupForm) # {}
    /\ LET stream == SetupNewStream(setupForm)
           F0 == [setupForm EXCEPT !.gum = @ - 1, !.live = @ \cup {stream},
                                   !.toast = Null]
       IN SetupStep(IF ~F0.mounted THEN F0
                    ELSE IF F0.videoMounted
                    THEN [F0 EXCEPT !.srcObject = stream, !.metaPending = TRUE,
                                    !.hasCameraPermissionInternal = "true"]
                    ELSE [F0 EXCEPT !.uiMode = "camera_denied",
                                    !.hasCameraPermissionInternal = "true"])

\* A getUserMedia call rejects.
SetupGetUserMediaRejected ==
    /\ setupForm.gum > 0
    /\ LET F0 == [setupForm EXCEPT !.gum = @ - 1, !.toast = "Camera Access Denied"]
       IN SetupStep(IF ~F0.mounted THEN F0
                    ELSE [F0 EXCEPT !.hasCameraPermissionInternal = "false",
                                    !.uiMode = "camera_denied"])

\* loadedmetadata event of the video element: onloadedmetadata.
SetupVideoLoadedMetadata ==
    /\ setupForm.mounted
    /\ setupForm.videoMounted
    /\ setupForm.metaPending
    /\ SetupStep([setupForm EXCEPT !.metaPending = FALSE, !.uiMode = "camera_active",
                                   !.toast = Null])

\* "Use File Upload Instead"
SetupSwitchToUploadMode ==
    /\ setupForm.mounted
    /\ SetupCameraViewShown(setupForm)
    /\ SetupStep([SetupStopVideo(setupForm) EXCEPT
                     !.hasCameraPermissionInternal = "false",
                     !.uiMode = "upload_mode", !.toast = Null])

\* "Try Webcam Again"
SetupHandleStartOver ==
    /\ setupForm.mounted
    /\ SetupTryWebcamAgainShown(setupForm)
    /\ SetupStep([setupForm EXCEPT !.imagePreview = Null,
                                   !.hasCameraPermissionInternal = Null,
                                   !.uiMode = "camera_pending", !.toast = Null])

\* The form unmounts: the <video> element is removed, then the cleanup runs.
SetupUnmount ==
    /\ setupForm.mounted
    /\ setupForm' = [SetupStopVideo([setupForm EXCEPT !.videoMounted = FALSE,
                                                      !.srcObject = NoStream,
                                                      !.metaPending = FALSE])
                        EXCEPT !.mounted = FALSE, !.gone = TRUE,
                               !.uiMode = "camera_pending",
                               !.hasCameraPermissionInternal = Null, !.toast = Null]
    /\ UNCHANGED <<ctrlVars, store, clock, lsCall, card, flagForm>>

SetupNext ==
    \/ SetupMount
    \/ SetupGetUserMediaGranted
    \/ SetupGetUserMediaRejected
    \/ SetupVideoLoadedMetadata
    \/ SetupSwitchToUploadMode
    \/ SetupHandleStartOver
    \/ SetupUnmount

SetupSpec == Init /\ [][SetupNext]_vars

(***************************************************************************)
(* Properties                                                              *)
(***************************************************************************)
History == getHistory(store, TRUE)
Unresolved == (IF camera.gumAlive THEN 1 ELSE 0) + camera.gumDead
CurAffordances ==
    Affordances(uiMode, imagePreview, analysisResult, hasCameraPermissionInternal)

\* C1: a step that leaves camera_active ends with every stream stopped, and
\* no stream has a live track in a state whose uiMode is upload_mode,
\* analyzing, results or camera_denied, or whose component is unmounted.
C1_CameraReleased ==
    [][/\ (phase = "mounted" /\ uiMode = "camera_active"
           /\ (uiMode' # "camera_active" \/ phase' # "mounted"))
          => camera'.live = {}
       /\ (uiMode' \in {"upload_mode", "analyzing", "results", "camera_denied"}
           \/ phase' = "unmounted")
          => camera'.live = {}]_vars

\* A snapshot has taken the controller from camera_active to analyzing.
C1_Witness ==
    /\ phase = "mounted"
    /\ uiMode = "analyzing"
    /\ \E r \in BagToSet(inflight) : r.mode = "camera_active"
    /\ camera.live = {}

\* C2: every step makes as many analyzePsleProblem calls as it starts
\* runAnalysis invocations (at most one); a rejected call leaves the stored
\* history as it is; a resolved call prepends exactly its one new
\* AnalyzedProblem when the write succeeds and nothing when it fails; and
\* the history never grows in any other step.
C2_OneProblemPerAnalysis ==
    [][/\ nRun' - nRun \in {0, 1}
       /\ nCall' - nCall = nRun' - nRun
       /\ BagCardinality(inflight') >= BagCardinality(inflight) - 1
       /\ \A r \in BagToSet(inflight), err \in Rejections :
            AnalysisFails(r, err) => History' = History
       /\ \A r \in BagToSet(inflight), out \in Outputs, now \in ClockReadings,
             writeOk \in BOOLEAN :
            AnalysisSucceeds(r, out, now, writeOk)
            => History' = IF writeOk
                          THEN <<NewAnalyzedProblem(r.uri, out, now)>> \o History
                          ELSE History
       /\ Len(History') > Len(History)
          => /\ Len(History') = Len(History) + 1
             /\ BagCardinality(inflight') = BagCardinality(inflight) - 1
             /\ nRun' = nRun]_vars

\* Two invocations have settled, one stored its problem, the last one failed.
C2_Witness ==
    /\ nRun = 2
    /\ nCall = 2
    /\ inflight = EmptyBag
    /\ Len(History) = 1
    /\ toast = "Analysis Failed"

C4_FailureGoesToUpload ==
    [][\A r \in BagToSet(inflight), err \in Rejections :
          (/\ AnalysisFails(r, err)
           /\ phase = "mounted"
           /\ uiMode = "analyzing"
           /\ imagePreview' # Null)
          => uiMode' = "upload_mode"]_vars

\* C5 (as claimed): in results the pending image is empty.
C5_ClearedInResults ==
    (phase = "mounted" /\ uiMode = "results") => (imagePreview = Null /\ imageFile = Null)

\* C5 (amended): a successful analysis leaves imagePreview and imageFile as
\* they were, and reset clears both.
C5_ClearedByResetOnly ==
    [][/\ \A r \in BagToSet(inflight), out \in Outputs, now \in ClockReadings,
             writeOk \in BOOLEAN :
            AnalysisSucceeds(r, out, now, writeOk)
            => (imagePreview' = imagePreview /\ imageFile' = imageFile)
       /\ handleStartOver => (imagePreview' = Null /\ imageFile' = Null)]_vars

\* The results of the pending image are shown and the image is still pending.
C5_Witness ==
    /\ phase = "mounted"
    /\ uiMode = "results"
    /\ analysisResult # <<>>
    /\ imagePreview # Null
    /\ imagePreview = analysisResult[1].problemImageUri

\* A failure has been recorded and the analysed image is still pending.
AfterFailureWithImage ==
    /\ phase = "mounted"
    /\ analysisError # Null
    /\ imagePreview # Null
    /\ uiMode \notin {"analyzing", "results"}

C7_OneAcquisition == Unresolved <= 1

\* C8 (as claimed): at most one analyzePsleProblem call is in flight.
C8_OneAnalysis == BagCardinality(inflight) <= 1

\* C9: after addProblemToHistory(p) on a stored array h whose write
\* succeeded, getHistory() is p followed by h, and so is the value returned.
C9_ReadAfterAppend ==
    (/\ lsCall.op = "addProblemToHistory"
     /\ lsCall.wrote
     /\ lsCall.before.kind = "json"
     /\ lsCall.before.type = "array")
    => LET h == [i \in 1..Len(lsCall.before.items) |-> FromJson(lsCall.before.items[i])]
           p == lsCall.arg[1]
       IN /\ getHistory(store, TRUE) = <<p>> \o h
          /\ lsCall.ret = <<p>> \o h

\* A problem has been added in front of a non-empty stored array.
C9_Witness ==
    /\ lsCall.op = "addProblemToHistory"
    /\ lsCall.wrote
    /\ lsCall.before.kind = "json"
    /\ lsCall.before.type = "array"
    /\ Len(lsCall.before.items) >= 1
    /\ lsCall.arg[1] # FromJson(lsCall.before.items[1])

\* C10: when the write fails, addProblemToHistory does not throw, returns
\* the history it read, and getHistory() still returns that history.
C10_WriteFailure ==
    (lsCall.op = "addProblemToHistory" /\ lsCall.win /\ ~lsCall.wrote)
    => /\ ~lsCall.threw
       /\ lsCall.ret = getHistory(lsCall.before, TRUE)
       /\ getHistory(store, TRUE) = getHistory(lsCall.before, TRUE)
       /\ store = lsCall.before

\* A write on top of a non-empty history has failed.
C10_Witness ==
    /\ lsCall.op = "addProblemToHistory"
    /\ lsCall.win
    /\ ~lsCall.wrote
    /\ Len(getHistory(lsCall.before, TRUE)) >= 1

\* C11: after clearHistoryStorage(), whatever the store held before (no
\* item, an empty string, unparseable text, a non-array or an array),
\* getHistory() returns the empty sequence, and a second
\* clearHistoryStorage() leaves the store as the first one left it.
C11_ClearThenRead ==
    lsCall.op = "clearHistoryStorage"
    => /\ getHistory(store, lsCall.win) = <<>>
       /\ lsCall.win => store = NoItem
       /\ clearHistoryStorage(store, lsCall.win) = store

\* A non-empty stored history has been cleared.
C11_Witness ==
    /\ lsCall.op = "clearHistoryStorage"
    /\ lsCall.win
    /\ Len(getHistory(lsCall.before, TRUE)) >= 1
    /\ store = NoItem

\* C12: getHistory() never throws, leaves the store as it was, and returns
\* the empty sequence when there is no item, when the item is not parseable
\* and when the parsed value is not an array.
C12_ReadNeverFails ==
    lsCall.op = "getHistory"
    => /\ ~lsCall.threw
       /\ store = lsCall.before
       /\ (\/ lsCall.before.kind \in {"absent", "empty", "garbage"}
           \/ lsCall.before.type # "array") => lsCall.ret = <<>>

\* getHistory() has been called on a store that holds unparseable text.
C12_Witness ==
    /\ lsCall.op = "getHistory"
    /\ lsCall.win
    /\ lsCall.before = GarbageItem
    /\ lsCall.ret = <<>>

\* The reset buttons the current render offers.
ResetOffered == CurAffordances \cap {"startOver", "tryWebcamAgain", "clearAndRestart"} # {}

\* C13: reset, from every state that offers it, ends in camera_pending with
\* no pending image, no result, no error and permission unknown, and with a
\* getUserMedia call made in that step (one more unresolved request, owned
\* by the current effect); and in camera_denied with permission refused and
\* no pending image, "Try Webcam Again" is offered, so that this reset can
\* be taken there.
C13_ResetReacquires ==
    [][/\ handleStartOver
          => /\ ResetOffered
             /\ uiMode' = "camera_pending"
             /\ imagePreview' = Null
             /\ imageFile' = Null
             /\ analysisResult' = <<>>
             /\ analysisError' = Null
             /\ hasCameraPermissionInternal' = Null
             /\ camera'.gumAlive
             /\ Unresolved' = Unresolved + 1
       /\ (/\ phase' = "mounted"
           /\ uiMode' = "camera_denied"
           /\ hasCameraPermissionInternal' = "false"
           /\ imagePreview' = Null)
          => TryWebcamAgainShown(uiMode', imagePreview', analysisResult',
                                 hasCameraPermissionInternal')]_vars

\* A reset has been made after an analysis was stored, and its getUserMedia
\* call is pending.
C13_Witness ==
    /\ phase = "mounted"
    /\ uiMode = "camera_pending"
    /\ hasCameraPermissionInternal = Null
    /\ camera.gumAlive
    /\ analysisResult = <<>>
    /\ Len(History) >= 1
    /\ inflight = EmptyBag
    /\ readers = EmptyBag

\* The values handleStartOver sets the effect's dependencies to.
StartOverDeps == Deps("camera_pending", Null, <<>>, Null)

\* A further call of handleStartOver would change nothing: every setter
\* gets the value the state already has, and the commit that follows leaves
\* the mode, the streams and the unresolved requests as they are.
StartOverChangesNothing ==
    LET c == Commit(CurDeps, StartOverDeps, camera) IN
    /\ CurDeps = StartOverDeps
    /\ c.uiMode = uiMode
    /\ c.camera = camera
    /\ imageFile = Null
    /\ analysisError = Null
    /\ shouldAutoPlaySpeech = FALSE

\* C14: in the state a reset leaves, from results as from anywhere else, a
\* second reset changes nothing: the state is camera_pending without image,
\* result and error, permission unknown, and the unresolved getUserMedia
\* requests are the same.
C14_ResetIdempotent ==
    [][handleStartOver => StartOverChangesNothing']_vars

\* A reset has been made from results: the stored problem is no longer shown.
C14_Witness ==
    /\ phase = "mounted"
    /\ StartOverChangesNothing
    /\ camera.gumAlive
    /\ Len(History) >= 1
    /\ nRun >= 1
    /\ inflight = EmptyBag

\* A camera result arrives: getUserMedia settles, or the video element
\* fires loadedmetadata or error.
CameraResult ==
    \/ GetUserMediaGranted
    \/ GetUserMediaSettlesLate
    \/ GetUserMediaRejected
    \/ VideoLoadedMetadata
    \/ VideoError

\* switchToUploadMode applied to the current camera with the controller in
\* mode m and permission perm: the mode and the camera it leaves.
SwitchedFrom(m, perm) ==
    Commit(Deps(m, imagePreview, analysisResult, perm),
           Deps("upload_mode", imagePreview, analysisResult, perm), camera)

\* C15: switchToUploadMode, taken in camera_pending, camera_active or
\* camera_denied, ends in upload_mode with no stream live and no getUserMedia
\* request owned by a current effect, whatever the permission value is; and
\* in upload_mode no camera result (a getUserMedia call that settles, a
\* loadedmetadata or error event) changes uiMode or leaves a stream live.
C15_SwitchToUploadHolds ==
    [][/\ switchToUploadMode
          => /\ uiMode \in {"camera_pending", "camera_active", "camera_denied"}
             /\ uiMode' = "upload_mode"
             /\ camera'.live = {}
             /\ ~camera'.gumAlive
       /\ (phase = "mounted"
           /\ uiMode \in {"camera_pending", "camera_active", "camera_denied"})
          => \A perm \in {Null, "true", "false"} :
                LET c == SwitchedFrom(uiMode, perm) IN
                /\ c.uiMode = "upload_mode"
                /\ c.camera.live = {}
                /\ ~c.camera.gumAlive
       /\ (phase = "mounted" /\ uiMode = "upload_mode" /\ CameraResult)
          => (uiMode' = "upload_mode" /\ camera'.live = {})]_vars

\* The controller is in upload_mode after a switch and the getUserMedia
\* request made before the switch has settled since.
C15_Witness ==
    /\ phase = "mounted"
    /\ uiMode = "upload_mode"
    /\ imagePreview = Null
    /\ analysisError = Null
    /\ nRun = 0
    /\ readers = EmptyBag
    /\ Unresolved = 0
    /\ camera.live = {}

\* The state a snapshot attempt must leave alone.
SnapFrame ==
    <<phase, uiMode, imageFile, imagePreview, analysisResult, analysisError,
      shouldAutoPlaySpeech, hasCameraPermissionInternal, camera, readers, inflight,
      blobs, nRun, nCall, store, clock, lsCall>>

\* C16: handleSnapAnalyzeAndRead snaps only in camera_active with
\* permission granted and the video ready; a click while the video is not
\* ready leaves mode, image, result, error, streams, history and the
\* analysis calls as they are, stays in camera_active and raises the
\* "Camera Not Ready" toast.
C16_SnapNeedsReadyCamera ==
    [][/\ Shown("snap")
          => \A videoRef \in BOOLEAN, m \in UiModes, perm \in {Null, "true", "false"},
                ready \in BOOLEAN :
                (m # "camera_active" \/ perm # "true" \/ ~ready)
                => SnapOutcome(videoRef, m, perm, ready) # "snap"
       /\ SnapAttempt(FALSE)
          => /\ UNCHANGED SnapFrame
             /\ uiMode' = "camera_active"
             /\ toast' = "Camera Not Ready"
       /\ (handleSnapAnalyzeAndRead /\ nRun' # nRun)
          => (/\ uiMode = "camera_active"
              /\ hasCameraPermissionInternal = "true"
              /\ camera.loaded)]_vars

\* A snapshot was attempted in camera_active before the video was ready.
C16_Witness ==
    /\ phase = "mounted"
    /\ uiMode = "camera_active"
    /\ toast = "Camera Not Ready"
    /\ nRun = 0
    /\ inflight = EmptyBag

\* C17: camera_active is entered only by the loadedmetadata event of the
\* stream that a granted getUserMedia call attached to the video element;
\* in camera_active, and whenever the snap button is offered, the video has
\* reported its metadata, and no snapshot is taken before.
C17_ActiveAfterMetadata ==
    [][/\ (uiMode' = "camera_active" /\ uiMode # "camera_active")
          => /\ VideoLoadedMetadata
             /\ camera.metaPending
             /\ camera.srcObject # NoStream
             /\ camera'.srcObject = camera.srcObject
             /\ hasCameraPermissionInternal = "true"
       /\ (phase' = "mounted" /\ uiMode' = "camera_active")
          => (camera'.videoMounted /\ camera'.loaded /\ camera'.srcObject # NoStream)
       /\ SnapButtonShown(uiMode', imagePreview', analysisResult',
                          hasCameraPermissionInternal')
          => camera'.loaded
       /\ blobs' > blobs => camera.loaded]_vars

\* camera_active has been entered and the snap button is offered.
C17_Witness ==
    /\ phase = "mounted"
    /\ uiMode = "camera_active"
    /\ camera.loaded
    /\ "snap" \in CurAffordances

\* C18 (as claimed): in camera_active the video element holds a stream
\* whose tracks are live.
C18_LiveStreamInActive ==
    (phase = "mounted" /\ uiMode = "camera_active")
    => (camera.videoMounted /\ camera.srcObject \in camera.live)

\* C19: when the getUserMedia call of the current effect is rejected, the
\* controller is in camera_denied with permission refused, the file input
\* is offered and no getUserMedia call is made; and while permission is
\* refused no request is pending for the current effect and none is made
\* by any step but a reset.
C19_NoRetryAfterRefusal ==
    [][/\ GetUserMediaRejected
          => /\ uiMode' = "camera_denied"
             /\ hasCameraPermissionInternal' = "false"
             /\ UploadSectionShown(uiMode', imagePreview', analysisResult',
                                   hasCameraPermissionInternal')
             /\ ~camera'.gumAlive
             /\ Unresolved' = Unresolved - 1
       /\ (phase' = "mounted" /\ hasCameraPermissionInternal' = "false")
          => ~camera'.gumAlive
       /\ (phase = "mounted" /\ hasCameraPermissionInternal = "false"
           /\ (camera'.gumAlive \/ Unresolved' > Unresolved))
          => handleStartOver]_vars

\* The getUserMedia call has just been rejected.
C19_Witness ==
    /\ phase = "mounted"
    /\ uiMode = "camera_denied"
    /\ hasCameraPermissionInternal = "false"
    /\ toast = "Camera Access Denied"
    /\ "fileInput" \in CurAffordances
    /\ ~camera.gumAlive

\* C20 (as claimed): every analyzePsleProblem call gets a non-empty data
\* URI as its problemImage.
C20_NonEmptyImage ==
    \A r \in BagToSet(inflight) : r.uri # Null

\* C21 (as claimed): the error recorded by a failed analysis is the message
\* of the rejection, whatever was rejected with.
C21_MessageVerbatim ==
    [][\A r \in BagToSet(inflight), err \in Rejections :
          (AnalysisFails(r, err) /\ phase = "mounted")
          => analysisError' = err.message]_vars

\* C21 (amended): the error recorded is the message of the rejection when
\* the call rejected with an Error, and the fixed text "An unknown error
\* occurred during analysis." when it rejected with anything else; the
\* toast of the step is "Analysis Failed".
C21_MessageOfErrorsOnly ==
    [][\A r \in BagToSet(inflight), err \in Rejections :
          (AnalysisFails(r, err) /\ phase = "mounted")
          => /\ analysisError' = IF err.isError THEN err.message
                                  ELSE UnknownErrorMessage
             /\ toast' = "Analysis Failed"]_vars

\* An analysis has been rejected with a value that is no Error.
C21_Witness ==
    /\ phase = "mounted"
    /\ analysisError = UnknownErrorMessage
    /\ toast = "Analysis Failed"

\* C22: when the analysis resolves and the write of the new record fails,
\* the controller shows the results of the new AnalyzedProblem, the step
\* records no error and raises the "Analysis Complete!" toast, and the
\* store is unchanged.
C22_ResultShownWithoutSave ==
    [][\A r \in BagToSet(inflight), out \in Outputs, now \in ClockReadings :
          (AnalysisSucceeds(r, out, now, FALSE) /\ phase = "mounted")
          => /\ uiMode' = "results"
             /\ analysisResult' = <<NewAnalyzedProblem(r.uri, out, now)>>
             /\ Screen(uiMode', analysisResult') = "results"
             /\ analysisError' = analysisError
             /\ (nRun = 1 => analysisError' = Null)
             /\ toast' = "Analysis Complete!"
             /\ store' = store
             /\ History' = History]_vars

\* A result is shown that is not in the stored history.
C22_Witness ==
    /\ phase = "mounted"
    /\ uiMode = "results"
    /\ analysisResult # <<>>
    /\ analysisError = Null
    /\ toast = "Analysis Complete!"
    /\ \A i \in 1..Len(History) : History[i] # analysisResult[1]

\* C23 (as claimed): the controller starts in camera_pending and every
\* change of uiMode is one of the transitions of the table, where the
\* "capture-ready" mode after a failure is any mode but analyzing and
\* results.
C23_RefinesTable ==
    [][LET TableTransitions ==
               {<<"camera_pending", "camera_active">>,
                <<"camera_pending", "camera_denied">>,
                <<"camera_active", "upload_mode">>, <<"camera_denied", "upload_mode">>,
                <<"camera_active", "analyzing">>, <<"upload_mode", "analyzing">>,
                <<"analyzing", "results">>, <<"analyzing", "upload_mode">>,
                <<"analyzing", "camera_active">>, <<"analyzing", "camera_denied">>,
                <<"analyzing", "camera_pending">>, <<"results", "camera_pending">>}
       IN /\ phase = "init" => uiMode = "camera_pending"
          /\ (phase = "mounted" /\ phase' = "mounted" /\ uiMode' # uiMode)
             => <<uiMode, uiMode'>> \in TableTransitions]_vars

\* C23 (amended): the controller starts in camera_pending, and a change of
\* uiMode is one of these: loadedmetadata takes camera_pending to
\* camera_active; a rejected getUserMedia call or a video error leads to
\* camera_denied; a granted call without a video element leads to
\* camera_denied or back to camera_pending; "Use File Upload Instead" takes
\* camera_pending, camera_active or camera_denied to upload_mode; a snapshot
\* takes camera_active to analyzing; the end of a file read leads to
\* analyzing from any mode; a resolved analysis leads to results from any
\* mode; a rejected analysis leads to upload_mode or camera_denied, or to
\* camera_pending when the effect restarts the camera; reset leads to
\* camera_pending from every mode that offers it.
C23_TransitionsByCause ==
    [][/\ phase = "init" => uiMode = "camera_pending"
       /\ (phase = "mounted" /\ phase' = "mounted" /\ uiMode' # uiMode)
          => \/ VideoLoadedMetadata /\ uiMode = "camera_pending"
                /\ uiMode' = "camera_active"
             \/ (GetUserMediaRejected \/ VideoError) /\ uiMode' = "camera_denied"
             \/ GetUserMediaGranted /\ uiMode' \in {"camera_denied", "camera_pending"}
             \/ switchToUploadMode
                /\ uiMode \in {"camera_pending", "camera_active", "camera_denied"}
                /\ uiMode' = "upload_mode"
             \/ handleSnapAnalyzeAndRead /\ uiMode = "camera_active"
                /\ uiMode' = "analyzing"
             \/ ReaderLoadEnd /\ uiMode' = "analyzing"
             \/ AnalysisResolves /\ uiMode' = "results"
             \/ AnalysisRejects
                /\ uiMode' \in {"upload_mode", "camera_denied", "camera_pending"}
             \/ handleStartOver /\ uiMode \in {"results", "upload_mode", "camera_denied"}
                /\ uiMode' = "camera_pending"]_vars

\* "Try Webcam Again" has taken the controller from upload_mode back to
\* camera_pending, a change the table does not list.
C23_Witness ==
    /\ phase = "mounted"
    /\ uiMode = "camera_pending"
    /\ nRun = 0
    /\ readers = EmptyBag
    /\ camera.gumAlive
    /\ camera.gumDead >= 1

\* C24 (as claimed): uiMode becomes results only from analyzing, in a step
\* in which an analysis call resolves.
C24_ResultsFromAnalyzing ==
    [][(phase' = "mounted" /\ uiMode' = "results" /\ uiMode # "results")
       => (uiMode = "analyzing" /\ AnalysisResolves)]_vars

\* The response of call r is late: the controller is no longer analyzing
\* the image that r was started with.
Stale(r) == uiMode # "analyzing" \/ imagePreview # r.uri

\* C25 (as claimed): a response that arrives when the controller has moved
\* on from the analysis it belongs to changes neither uiMode nor the
\* result, the error or the pending image.
C25_StaleResponseIgnored ==
    [][\A r \in BagToSet(inflight) :
          (/\ phase = "mounted"
           /\ Stale(r)
           /\ \/ \E out \in Outputs, now \in ClockReadings, writeOk \in BOOLEAN :
                    AnalysisSucceeds(r, out, now, writeOk)
              \/ \E err \in Rejections : AnalysisFails(r, err))
          => UNCHANGED <<uiMode, analysisResult, analysisError, imagePreview>>]_vars

\* C26: every step leaves the stored history as it is, puts exactly one
\* new entry in front of it, or replaces it by the empty sequence; the
\* first happens only when an analysis resolves, the last only by the
\* history screen's clear.
C26_PrependOrClear ==
    [][\/ History' = History
       \/ /\ Len(History') = Len(History) + 1
          /\ \A i \in 1..Len(History) : History'[i + 1] = History[i]
          /\ AnalysisResolves
       \/ /\ History' = <<>>
          /\ handleClearHistory]_vars

\* A second entry has been put in front of the first one.
C26_Witness ==
    /\ Len(History) = 2
    /\ History[1].timestamp >= History[2].timestamp
    /\ toast = "Analysis Complete!"

\* C27 (as claimed): the ids of the stored entries are pairwise distinct.
C27_DistinctIds ==
    \A i, j \in 1..Len(History) : i # j => History[i].id # History[j].id

\* C28: a change event of the file input without a file leaves uiMode,
\* pending image, result, error, history and every other part of the
\* controller as they are, starts no file read and no analysis, and raises
\* no toast.
C28_EmptySelectionNoOp ==
    [][FileSelected(FALSE)
       => /\ UNCHANGED <<uiMode, imageFile, imagePreview, analysisResult, analysisError,
                        shouldAutoPlaySpeech, hasCameraPermissionInternal, camera,
                        readers, inflight, blobs, nRun, nCall, store, clock>>
          /\ History' = History
          /\ toast' = Null]_vars

\* The file input is offered in camera_denied, the denial's toast is gone
\* and neither a file read nor an analysis has been started.
C28_Witness ==
    /\ phase = "mounted"
    /\ uiMode = "camera_denied"
    /\ hasCameraPermissionInternal = "false"
    /\ "fileInput" \in CurAffordances
    /\ toast = Null
    /\ imageFile = Null
    /\ readers = EmptyBag
    /\ nRun = 0
    /\ Unresolved = 0

\* A getUserMedia request of the current effect is unresolved in
\* camera_pending.
Waiting == phase = "mounted" /\ uiMode = "camera_pending" /\ camera.gumAlive

C30_DeadEffectInert ==
    [][/\ GetUserMediaSettlesLate
          => /\ UNCHANGED <<uiMode, hasCameraPermissionInternal>>
             /\ camera'.live = camera.live
             /\ camera'.gumDead = camera.gumDead - 1
       /\ ((VideoLoadedMetadata \/ VideoError) /\ camera.handlers = "dead")
          => /\ UNCHANGED <<uiMode, hasCameraPermissionInternal>>
             /\ camera'.gumAlive = camera.gumAlive
             /\ camera'.gumDead = camera.gumDead
             /\ camera'.live = camera.live
       /\ phase = "unmounted"
          => (UNCHANGED <<uiMode, hasCameraPermissionInternal>> /\ camera'.live = {})]_vars

\* After the unmount the request of the torn-down effect has settled and
\* nothing is live.
C30_Witness ==
    /\ phase = "unmounted"
    /\ camera.gumDead = 0
    /\ ~camera.gumAlive
    /\ camera.live = {}
    /\ nRun = 0
    /\ store = NoItem
    /\ toast = Null

\* C31 (as claimed): a granted getUserMedia call of the current effect in
\* camera_pending is the only acquisition of that entry: the step starts no
\* further getUserMedia call, and the stream it attached to the video
\* element is live and stays attached until camera_active is entered.
C31_OneAcquisitionPerEntry ==
    [][/\ (GetUserMediaGranted /\ uiMode = "camera_pending" /\ camera.videoMounted)
          => /\ ~camera'.gumAlive
             /\ camera'.srcObject = NewStream(camera)
             /\ camera'.srcObject \in camera'.live
       /\ (uiMode # "camera_active" /\ uiMode' = "camera_active")
          => camera'.srcObject \in camera'.live]_vars

\* The first element of the stored history, as a sequence of at most one.
FirstStored == IF History = <<>> THEN <<>> ELSE <<Head(History)>>

\* C32: in every mounted state with uiMode = results analysisResult is
\* set; a resolved analysis whose record was written and that ends in
\* results shows the record that is first in the stored history; and
\* while the controller stays in results with the same result shown, a
\* result that is first in the stored history remains first.
C32_ResultIsNewestStored ==
    [][/\ (phase' = "mounted" /\ uiMode' = "results") => analysisResult' # <<>>
       /\ \A r \in BagToSet(inflight), out \in Outputs, now \in ClockReadings :
             (AnalysisSucceeds(r, out, now, TRUE) /\ uiMode' = "results")
             => /\ analysisResult' = <<NewAnalyzedProblem(r.uri, out, now)>>
                /\ analysisResult' = FirstStored'
       /\ (uiMode = "results" /\ uiMode' = "results" /\ analysisResult' = analysisResult
           /\ analysisResult = FirstStored)
          => analysisResult' = FirstStored']_vars

\* A second record has been written and is shown, ahead of the first one.
C32_Witness ==
    /\ phase = "mounted"
    /\ uiMode = "results"
    /\ Len(History) = 2
    /\ History[1] # History[2]
    /\ analysisResult = <<History[1]>>

\* C33 (as claimed): in upload_mode with no pending image the render
\* offers "Try Webcam Again", whatever hasCameraPermissionInternal is.
C33_CameraReachableFromUpload ==
    (phase = "mounted" /\ uiMode = "upload_mode" /\ imagePreview = Null)
    => "tryWebcamAgain" \in CurAffordances

\* The record shown in results comes from a snapshot: its image is the
\* canvas data URL, not the data URL of a file.
ShownResultIsSnapshot ==
    analysisResult # <<>> /\ analysisResult[1].problemImageUri = SnapDataUrl

\* C34 (as claimed): in results, shouldAutoPlaySpeech is true only if the
\* displayed result was produced from a camera snapshot.
C34_AutoPlayOnlyForSnapshots ==
    (phase = "mounted" /\ uiMode = "results" /\ shouldAutoPlaySpeech)
    => ShownResultIsSnapshot

\* C35 (as claimed): the auto-play effect starts speech at most once for the problem
\* displayed, and once an utterance for that problem has ended, failed or
\* been stopped by the user, no step starts speech automatically while the
\* problem id stays the same.
C35_AutoPlayAtMostOnce ==
    [][/\ card'.mounted => card'.autoStarts <= 1
       /\ (card.mounted /\ card'.mounted /\ card.finished /\ card'.pid = card.pid)
          => card'.autoStarts = card.autoStarts]_vars

\* C36 (as claimed): no utterance of the card is queued or spoken after its
\* unmount or for a problem other than the one displayed, and when no
\* utterance is left and every event has been delivered isSpeaking is
\* false.
C36_SpeechEndsWithCard ==
    /\ ~card.mounted => card.utt = NoUtt
    /\ (card.mounted /\ card.utt # NoUtt) => card.utt.pid = card.pid
    /\ (card.mounted /\ card.utt = NoUtt /\ card.cancelled = {}) => ~card.isSpeaking

\* C37 (as claimed): while isCameraOpen is false, and after the unmount,
\* no stream that a getUserMedia call returned has a live track.
C37_ClosedCameraHoldsNoStream ==
    ~flagForm.isCameraOpen => flagForm.live = {}

\* C38 (as claimed): switchToUploadMode ends in upload_mode with no live
\* stream, and a step that is not a user action (a getUserMedia call that
\* settles) leaves a form in upload_mode in upload_mode with no live stream.
C38_UploadModeHolds ==
    [][/\ SetupSwitchToUploadMode
          => (setupForm'.uiMode = "upload_mode" /\ setupForm'.live = {})
       /\ (setupForm.mounted /\ setupForm.uiMode = "upload_mode"
           /\ (SetupGetUserMediaGranted \/ SetupGetUserMediaRejected))
          => (setupForm'.uiMode = "upload_mode" /\ setupForm'.live = {})]_vars

====
